---------------------------- MODULE Spec2Model ----------------------------
(***************************************************************************)
(* Asset-analysis pipeline of CS-Predictor: the dashboard's handleAnalyze, *)
(* the two POST routes of /api/predict (OpenAI vision route and the        *)
(* model-service route), analyzeContentWithOpenAI / performOpenAIAnalysis  *)
(* with its JSON repair, and the audit log.                                *)
(*                                                                         *)
(* Numbers: platform scores are integers; confidences, densities and       *)
(* multipliers are held in hundredths (0.85 is 85), so Math.round(x * m)   *)
(* is Round(x * m, 100).                                                   *)
(***************************************************************************)
EXTENDS Integers, Sequences, FiniteSets, TLC

VARIABLES
    pc,                 \* position of the request: idle, sent, *_call, responded, done, failed
    origin,             \* "dashboard" or "direct" (any other HTTP client)
    req,                \* the request in flight: session, file, platforms field
    calls,              \* provider calls issued for this request, with their outcomes
    contentAnalysis,    \* performOpenAIAnalysis: contentAnalysis after step 1
    aiResult,           \* POST: aiResult returned by analyzeContentWithOpenAI
    response,           \* the HTTP response of the request
    auditLogs,          \* audit-service: the in-memory auditLogs array
    uploadedFile,       \* Dashboard state
    selectedPlatforms,  \* Dashboard state
    isAnalyzing,        \* Dashboard state
    results,            \* Dashboard state: set from a successful response
    showSubscriptionError, \* Dashboard state
    alertMessage,       \* the last window.alert text of the dashboard
    openaiClient,       \* openai-analysis: the module-level client, TRUE once created
    signIn,             \* the last call of the signIn callback: its user and its answer
    normalized,         \* runs of the normalisation on raw payloads: input and output
    getResponse         \* the last response of the GET routes (audit log, key check)

vars == <<pc, origin, req, calls, contentAnalysis, aiResult, response, auditLogs,
          uploadedFile, selectedPlatforms, isAnalyzing, results,
          showSubscriptionError, alertMessage, openaiClient, signIn, normalized, getResponse>>

---------------------------------------------------------------------------
(* Bounds of the model *)

\* longest platforms list a client sends or the user selects by toggling
MaxPlatforms == 2

---------------------------------------------------------------------------
(* Arithmetic *)

Min(a, b) == IF a < b THEN a ELSE b
Max(a, b) == IF a > b THEN a ELSE b

\* Math.round(num / den) for den > 0: floor(x + 1/2), halves go up
Round(num, den) == (2 * num + den) \div (2 * den)

RECURSIVE SumSeq(_)
SumSeq(s) == IF s = <<>> THEN 0 ELSE Head(s) + SumSeq(Tail(s))

RECURSIVE SetToSeq(_)
\* some enumeration of a finite set (Object.values / Object.keys order)
SetToSeq(S) == IF S = {} THEN <<>>
               ELSE LET x == CHOOSE y \in S : TRUE IN <<x>> \o SetToSeq(S \ {x})

Range(s) == { s[i] : i \in DOMAIN s }

---------------------------------------------------------------------------
(* Provider payload text, as a sequence of lexical tokens *)

Tok(k, key, n, s) == [k |-> k, key |-> key, n |-> n, s |-> s]
LB       == Tok("{", "", 0, "")
RB       == Tok("}", "", 0, "")
COMMA    == Tok(",", "", 0, "")
WS       == Tok("ws", "", 0, "")          \* white space
FENCE    == Tok("fence", "", 0, "")       \* a ```json or ``` markdown fence
JUNK     == Tok("junk", "", 0, "")        \* text that is no JSON token (prose, a cut string or array)
NULLTOK  == Tok("null", "", 0, "")
Key(k)   == Tok("key", k, 0, "")          \* "k":
NumT(n)  == Tok("num", "", n, "")
StrT(s)  == Tok("str", "", 0, s)
ArrT(n)  == Tok("arr", "", n, "")         \* a complete array of n strings

ScalarKinds == {"num", "str", "arr", "null"}

\* responseText.replace(/```json\n?|\n?```/g, '').trim()
IsFence(t) == t.k = "fence"
RECURSIVE TrimLeft(_)
TrimLeft(s) == IF s # <<>> /\ Head(s).k = "ws" THEN TrimLeft(Tail(s)) ELSE s
RECURSIVE TrimRight(_)
TrimRight(s) == IF s # <<>> /\ s[Len(s)].k = "ws"
                THEN TrimRight(SubSeq(s, 1, Len(s) - 1)) ELSE s
NotFence(t) == ~IsFence(t)
StripFences(s) == TrimRight(TrimLeft(SelectSeq(s, NotFence)))

\* (cleanedJson.match(/{/g) || []).length and the same for }
IsOpen(t) == t.k = "{"
IsClose(t) == t.k = "}"
CountOpen(s) == Len(SelectSeq(s, IsOpen))
CountClose(s) == Len(SelectSeq(s, IsClose))

RECURSIVE Braces(_)
Braces(n) == IF n <= 0 THEN <<>> ELSE <<RB>> \o Braces(n - 1)

\* cleanedJson.endsWith('}')
EndsWithBrace(s) == s # <<>> /\ s[Len(s)].k = "}"

RECURSIVE NextNonWs(_, _)
\* index of the first token at or after i that is not white space (Len+1 if none)
NextNonWs(s, i) == IF i > Len(s) THEN i
                   ELSE IF s[i].k = "ws" THEN NextNonWs(s, i + 1) ELSE i

RECURSIVE StripFrom(_, _)
\* cleanedJson.replace(/,(\s*})/g, '$1'), scanning from token i
StripFrom(s, i) ==
    IF i > Len(s) THEN <<>>
    ELSE LET j == NextNonWs(s, i + 1) IN
         IF s[i].k = "," /\ j <= Len(s) /\ s[j].k = "}"
         THEN StripFrom(s, i + 1)
         ELSE <<s[i]>> \o StripFrom(s, i + 1)
StripTrailingCommas(s) == StripFrom(s, 1)

\* the repair of a text that does not end with '}'
CloseBraces(s) == s \o Braces(CountOpen(s) - CountClose(s))
RepairJson(s) == StripTrailingCommas(CloseBraces(s))

\* the text handed to JSON.parse
CleanedJson(text) ==
    LET cleaned == StripFences(text) IN
    IF cleaned # <<>> /\ ~EndsWithBrace(cleaned) THEN RepairJson(cleaned) ELSE cleaned

---------------------------------------------------------------------------
(* JSON.parse on token sequences.  A parsed value is the set of its members, *)
(* each with its path from the root; the root has the empty path.           *)

Member(path, t, n, s) == [path |-> path, t |-> t, n |-> n, s |-> s]
ParseFail == [ok |-> FALSE, next |-> 0, mem |-> {}]

IsWs(t) == t.k = "ws"
NotWs(t) == ~IsWs(t)

RECURSIVE ParseValue(_, _, _)
RECURSIVE ParseMember(_, _, _)
RECURSIVE ParseAfterMember(_, _, _)

ParseValue(s, i, path) ==
    IF i > Len(s) THEN ParseFail
    ELSE IF s[i].k \in ScalarKinds
         THEN [ok |-> TRUE, next |-> i + 1,
               mem |-> {Member(path, s[i].k, s[i].n, s[i].s)}]
    ELSE IF s[i].k = "{"
         THEN LET inner == IF i + 1 <= Len(s) /\ s[i + 1].k = "}"
                           THEN [ok |-> TRUE, next |-> i + 2, mem |-> {}]
                           ELSE ParseMember(s, i + 1, path)
              IN IF inner.ok
                 THEN [inner EXCEPT !.mem = @ \cup {Member(path, "obj", 0, "")}]
                 ELSE ParseFail
    ELSE ParseFail

ParseMember(s, i, path) ==
    IF i > Len(s) \/ s[i].k # "key" THEN ParseFail
    ELSE LET v == ParseValue(s, i + 1, Append(path, s[i].key)) IN
         IF ~v.ok THEN ParseFail
         ELSE LET rest == ParseAfterMember(s, v.next, path) IN
              IF rest.ok THEN [rest EXCEPT !.mem = @ \cup v.mem] ELSE ParseFail

ParseAfterMember(s, i, path) ==
    IF i > Len(s) THEN ParseFail
    ELSE IF s[i].k = "}" THEN [ok |-> TRUE, next |-> i + 1, mem |-> {}]
    ELSE IF s[i].k = "," THEN ParseMember(s, i + 1, path)
    ELSE ParseFail

\* JSON.parse(text): ok = FALSE is a SyntaxError
JsonParse(text) ==
    LET s == SelectSeq(text, NotWs)
        v == ParseValue(s, 1, <<>>)
    IN IF v.ok /\ v.next = Len(s) + 1
       THEN [ok |-> TRUE, mem |-> v.mem]
       ELSE [ok |-> FALSE, mem |-> {}]

\* property access on a parsed value
Undefined(path) == Member(path, "undefined", 0, "")
Field(v, path) == IF \E m \in v.mem : m.path = path
                  THEN CHOOSE m \in v.mem : m.path = path
                  ELSE Undefined(path)
IsNullValue(v) == Field(v, <<>>).t = "null"
IsNullish(m) == m.t \in {"undefined", "null"}
\* JavaScript truthiness
Truthy(m) == CASE m.t \in {"undefined", "null"} -> FALSE
               [] m.t = "num" -> m.n # 0
               [] m.t = "str" -> m.s # ""
               [] OTHER -> TRUE
\* the keys of the object at path
KeysAt(v, path) == { m.path[Len(path) + 1] :
                     m \in { x \in v.mem : Len(x.path) = Len(path) + 1
                                           /\ SubSeq(x.path, 1, Len(path)) = path } }


---------------------------------------------------------------------------
(* Inputs: files, platform ids, form fields, provider payloads and errors *)

\* PLATFORMS.map(p => p.id), in catalog order
PLATFORMS == <<"instagram", "facebook", "twitter", "tiktok", "snapchat", "linkedin">>
PlatformIds == Range(PLATFORMS)

\* platform cards the user clicks in the runs explored
ToggleIds == {"instagram", "linkedin", "snapchat"}
\* ids a direct client puts in its list: two catalog ids, one id the type
\* declares but the catalog lacks, and one unknown id
DirectIds == {"instagram", "linkedin", "myspace"}
\* a list element that is a JSON number, held as the property key it coerces to
NumberId == "42"
IsStringId(p) == p # NumberId

SeqsUpTo(S, n) == UNION { [1..k -> S] : k \in 0..n }

NoFile == [present |-> FALSE, name |-> "", type |-> "", sizeMB |-> 0, bytes |-> ""]
ImageFile == [present |-> TRUE, name |-> "banner.png", type |-> "image/png", sizeMB |-> 1,
              bytes |-> "bytes of banner.png"]
PromoVideo == [present |-> TRUE, name |-> "promo.mp4", type |-> "video/mp4", sizeMB |-> 12,
               bytes |-> "bytes of promo.mp4"]
ClipVideo == [present |-> TRUE, name |-> "clip.mp4", type |-> "video/mp4", sizeMB |-> 60,
              bytes |-> "bytes of clip.mp4"]
Files == {ImageFile, PromoVideo, ClipVideo}

\* file.type.startsWith('video/')
IsVideo(file) == file.type = "video/mp4"

\* formData.get('platforms'): the raw field and what JSON.parse makes of it
AbsentField == [kind |-> "absent", list |-> <<>>]         \* null, parsed as JSON null
UnparseableField == [kind |-> "unparseable", list |-> <<>>] \* JSON.parse throws
NonArrayField == [kind |-> "nonarray", list |-> <<>>]     \* a JSON object or string
ArrayField(l) == [kind |-> "array", list |-> l]
DirectFields == {AbsentField, UnparseableField, NonArrayField}
                \cup { ArrayField(l) : l \in SeqsUpTo(DirectIds, MaxPlatforms) }
                \cup { ArrayField(<<NumberId>>), ArrayField(<<"instagram", NumberId>>) }

UserEmail == "ana@optiminastic.com"

\* a provider response body: has = FALSE is a null message content
Payload(text) == [has |-> TRUE, text |-> text]
NoContent == [has |-> FALSE, text |-> <<>>]

Prefixes(s) == { SubSeq(s, 1, k) : k \in 0..Len(s) }

ContentFull == <<LB, Key("contentType"), LB, Key("type"), StrT("Product Showcase"),
                 COMMA, Key("confidence"), NumT(85), RB, RB>>
ContentTexts ==
    Prefixes(ContentFull) \cup
    { <<NULLTOK>>,
      <<JUNK>>,
      <<FENCE, WS>> \o ContentFull \o <<WS, FENCE>>,
      <<LB, Key("contentType"), LB, Key("type"), StrT("Business Update"), COMMA, WS, RB, RB>>,
      <<LB, Key("contentType"), LB, Key("confidence"), NumT(150), RB, RB>>,
      <<LB, Key("contentType"), LB, Key("type"), StrT("Ad Copy"), COMMA,
        Key("confidence"), NumT(90), RB, RB>>,
      <<LB, Key("contentType"), LB, Key("type"), StrT("Business Update"), COMMA,
        Key("confidence"), NumT(100), RB, COMMA, Key("visualElements"), LB,
        Key("textDensity"), NumT(120), RB, RB>> }
ContentPayloads == { Payload(t) : t \in ContentTexts } \cup {NoContent}

PlatformFull == <<LB, Key("platformRecommendations"), LB,
                  Key("instagram"), LB, Key("score"), NumT(85), COMMA,
                  Key("optimizations"), ArrT(5), RB, COMMA,
                  Key("linkedin"), LB, Key("score"), NumT(0), RB, RB, RB>>
PlatformTexts ==
    Prefixes(PlatformFull) \cup
    { <<NULLTOK>>,
      <<JUNK>>,
      <<LB, Key("platformRecommendations"), LB, Key("instagram"), NULLTOK, RB, RB>>,
      <<LB, Key("platformRecommendations"), LB,
        Key("instagram"), LB, Key("score"), NumT(150), RB, COMMA,
        Key("myspace"), LB, Key("score"), NumT(-15), COMMA,
        Key("optimizations"), ArrT(2), RB, RB, RB>> }
PlatformPayloads == { Payload(t) : t \in PlatformTexts } \cup {NoContent}

VideoFull == <<LB, Key("contentType"), LB, Key("type"), StrT("Entertainment"), COMMA,
               Key("confidence"), NumT(90), RB, COMMA,
               Key("technicalAspects"), LB, Key("visualQuality"), NumT(95), COMMA,
               Key("engagement"), NumT(85), RB, RB>>
VideoTexts == { VideoFull, SubSeq(VideoFull, 1, 5), <<LB, RB>>, <<NULLTOK>>, <<JUNK>>,
                <<LB, Key("technicalAspects"), LB, Key("visualQuality"), NumT(10), RB, RB>> }
VideoPayloads == { Payload(t) : t \in VideoTexts } \cup {NoContent}

\* what a rejected provider call throws (the fields analyzeContentWithOpenAI reads)
Err(status, code, message) == [status |-> status, code |-> code, message |-> message]
NoErr == Err(0, "", "")
RateLimitError == Err(429, "rate_limit_exceeded", "429 Rate limit reached")
QuotaError == Err(429, "insufficient_quota", "429 You exceeded your current quota")
QuotaCodeError == Err(0, "insufficient_quota", "You exceeded your current quota")
TimeoutError == Err(0, "", "Request timed out.")
HttpError == Err(500, "", "500 Internal Server Error")
NetworkError == Err(0, "", "Connection error.")
ProviderErrors == {RateLimitError, QuotaError, QuotaCodeError, TimeoutError,
                   HttpError, NetworkError}
TypeError == Err(0, "", "Cannot read properties of null")
SyntaxError == Err(0, "", "Unexpected token in JSON")


---------------------------------------------------------------------------
(* performOpenAIAnalysis, image branch: the two parse steps and the result *)

NumM(n) == Member(<<>>, "num", n, "")
StrM(s) == Member(<<>>, "str", 0, s)
ArrM(n) == Member(<<>>, "arr", n, "")
ObjM(path) == Member(path, "obj", 0, "")
\* a member's value without its place
Scalar(m) == [m EXCEPT !.path = <<>>]

\* x || d on a number member
NumOr(m, d) == IF Truthy(m) THEN m.n ELSE d
\* x || d on a string member
StrOr(m, d) == IF Truthy(m) THEN m.s ELSE d

\* contentResponse.choices[0]?.message?.content || '{}'
ResponseText(payload) ==
    IF payload.has /\ payload.text # <<>> THEN payload.text ELSE <<LB, RB>>

\* the fallback structure of the content step's catch block
ContentFallback ==
    [mem |-> { ObjM(<<>>), ObjM(<<"contentType">>),
               Member(<<"contentType", "type">>, "str", 0, "Document"),
               Member(<<"contentType", "confidence">>, "num", 70, ""),
               Member(<<"extractedText">>, "str", 0,
                      "Text extraction failed due to parsing error"),
               ObjM(<<"visualElements">>),
               Member(<<"visualElements", "faces">>, "num", 0, ""),
               Member(<<"visualElements", "textDensity">>, "num", 50, ""),
               Member(<<"visualElements", "colorHarmony">>, "num", 70, ""),
               ObjM(<<"strategicIntent">>),
               Member(<<"strategicIntent", "primary">>, "str", 0, "Information") }]

\* step 1: clean, repair, JSON.parse, or the fallback structure
ParseContentAnalysis(payload) ==
    LET p == JsonParse(CleanedJson(ResponseText(payload))) IN
    IF p.ok THEN [mem |-> p.mem] ELSE ContentFallback

\* contentType.includes(word) on the lower-cased content type
TypeWords(type) ==
    CASE type = "Product Showcase" -> {"showcase"}
      [] type = "Business Update" -> {"business"}
      [] type = "Announcement" -> {"news", "announcement"}
      [] OTHER -> {}
TypeIncludes(type, words) == TypeWords(type) \cap words # {}

\* platformMultiplier of the fallback scoring, in hundredths
PlatformMultiplier(platform, type) ==
    CASE platform = "instagram" ->
            IF TypeIncludes(type, {"visual", "showcase"}) THEN 110 ELSE 90
      [] platform = "linkedin" ->
            IF TypeIncludes(type, {"professional", "business"}) THEN 120 ELSE 70
      [] platform = "tiktok" ->
            IF TypeIncludes(type, {"creative", "entertainment"}) THEN 110 ELSE 80
      [] platform = "twitter" ->
            IF TypeIncludes(type, {"news", "announcement"}) THEN 110 ELSE 85
      [] OTHER -> 100

PR == "platformRecommendations"

\* the platform step's catch block: a recommendation for every requested platform
FallbackPlatformAnalysis(content, platforms) ==
    LET baseScore == NumOr(Field(content, <<"contentType", "confidence">>), 60)
        type == StrOr(Field(content, <<"contentType", "type">>), "")
        rec(p) == { ObjM(<<PR, p>>),
                    Member(<<PR, p, "score">>, "num",
                           Round(baseScore * PlatformMultiplier(p, type), 100), ""),
                    Member(<<PR, p, "optimizations">>, "arr", 2, ""),
                    Member(<<PR, p, "reasoning">>, "str", 0, "Analysis based on content type") }
    IN [mem |-> {ObjM(<<>>), ObjM(<<PR>>)} \cup UNION { rec(p) : p \in Range(platforms) }]

Threw(e) == [threw |-> TRUE, error |-> e, value |-> [mem |-> {}]]
Returned(v) == [threw |-> FALSE, error |-> NoErr, value |-> v]

\* step 2: clean, repair, JSON.parse, or the fallback scoring, which reads
\* contentAnalysis.contentType and so throws when contentAnalysis is null
ParsePlatformAnalysis(payload, content, platforms) ==
    LET p == JsonParse(CleanedJson(ResponseText(payload))) IN
    IF p.ok THEN Returned([mem |-> p.mem])
    ELSE IF IsNullValue(content) THEN Threw(TypeError)
    ELSE Returned(FallbackPlatformAnalysis(content, platforms))

\* platformAnalysis.platformRecommendations || {} as a map from key to recommendation
RecsOf(platform) ==
    LET keys == IF Field(platform, <<PR>>).t = "obj" THEN KeysAt(platform, <<PR>>) ELSE {}
    IN [k \in keys |-> [isNull |-> Field(platform, <<PR, k>>).t = "null",
                        score |-> Scalar(Field(platform, <<PR, k, "score">>)),
                        optimizations |-> Scalar(Field(platform, <<PR, k, "optimizations">>))]]

\* variant: a score that depends on how many runs came before
OverallScoreCounting(recs) == 75 + Len(normalized)

\* step 3: the mean of (rec.score || 70) over every recommendation returned, or 75
OverallScore(recs) ==
    LET ks == SetToSeq(DOMAIN recs)
        scores == [i \in 1..Len(ks) |-> NumOr(recs[ks[i]].score, 70)]
    IN IF Len(ks) > 0 THEN Round(SumSeq(scores), Len(ks)) ELSE 75

NoResult == [present |-> FALSE]

\* contentType.likelihood: an object literal of three properties in source
\* order, a later one replacing an earlier one of the same name.  type is
\* contentType?.type || 'Social Post', rawType is contentType?.type
Likelihood(type, confidence, rawType) ==
    [k \in {type, "Ad Copy", "Educational Content"} |->
        IF k = "Educational Content" THEN (IF rawType = "Educational Content" THEN 0 ELSE 15)
        ELSE IF k = "Ad Copy" THEN (IF rawType = "Ad Copy" THEN 0 ELSE 25)
        ELSE confidence]

\* step 3 and the final result; reading a property of null throws a TypeError
BuildResult(content, platform) ==
    IF IsNullValue(platform) THEN Threw(TypeError)
    ELSE LET recs == RecsOf(platform) IN
         IF \E k \in DOMAIN recs : recs[k].isNull THEN Threw(TypeError)
         ELSE IF IsNullValue(content) THEN Threw(TypeError)
         ELSE Returned(
            [present |-> TRUE,
             contentType |->
                [type |-> StrOr(Field(content, <<"contentType", "type">>), "Social Post"),
                 confidence |-> NumOr(Field(content, <<"contentType", "confidence">>), 75),
                 likelihood |->
                    Likelihood(StrOr(Field(content, <<"contentType", "type">>), "Social Post"),
                               NumOr(Field(content, <<"contentType", "confidence">>), 75),
                               StrOr(Field(content, <<"contentType", "type">>), ""))],
             strategicPositioning |->
                [primary |-> StrOr(Field(content, <<"strategicIntent", "primary">>),
                                   "Brand Awareness")],
             visualAnalysis |->
                [faces |-> NumOr(Field(content, <<"visualElements", "faces">>), 0),
                 textDensity |-> NumOr(Field(content, <<"visualElements", "textDensity">>), 30),
                 colorHarmony |-> NumOr(Field(content, <<"visualElements", "colorHarmony">>), 80)],
             platformRecommendations |->
                [k \in DOMAIN recs |-> [score |-> recs[k].score,
                                        optimizations |-> recs[k].optimizations]],
             overallScore |-> OverallScore(recs)])


---------------------------------------------------------------------------
(* performOpenAIAnalysis, video branch.  The repository holds three versions *)
(* of the module: one answers from fixed tables, one from the file's name    *)
(* and size, one asks the provider about the file's characteristics.         *)

Rec(score, tips) == [score |-> NumM(score), optimizations |-> ArrM(tips)]

VideoResult(type, confidence, textDensity, colorHarmony, primary, recs, overall) ==
    [present |-> TRUE,
     contentType |-> [type |-> type, confidence |-> confidence],
     strategicPositioning |-> [primary |-> primary],
     visualAnalysis |-> [faces |-> 0, textDensity |-> textDensity,
                         colorHarmony |-> colorHarmony],
     platformRecommendations |-> recs,
     overallScore |-> overall]

\* version 1: fixed score per platform, four optimizations, overall 80
MetadataScore(platform) ==
    CASE platform \in {"tiktok", "instagram"} -> 90
      [] platform \in {"facebook", "twitter"} -> 80
      [] platform = "linkedin" -> 65
      [] platform = "snapchat" -> 85
      [] OTHER -> 75
VideoMetadataResult(platforms) ==
    VideoResult("Video Content", 80, 20, 70, "Engagement & Storytelling",
                [p \in Range(platforms) |-> Rec(MetadataScore(p), 4)], 80)

\* version 2: getVideoDurationEstimate, from whole megabytes
VideoDurationEstimate(sizeMB) ==
    IF sizeMB < 1 THEN 5
    ELSE IF sizeMB < 5 THEN sizeMB * 10
    ELSE IF sizeMB < 15 THEN sizeMB * 8
    ELSE IF sizeMB < 50 THEN sizeMB * 6
    ELSE sizeMB * 4

\* videoName.includes(word) for the file names of the model
NameWords(name) ==
    CASE name = "promo.mp4" -> {"promo"}
      [] OTHER -> {}
ContentTypeGuess(name, duration) ==
    IF NameWords(name) \cap {"tutorial", "how", "guide"} # {} THEN "Educational Content"
    ELSE IF NameWords(name) \cap {"ad", "promo", "commercial"} # {} THEN "Advertisement"
    ELSE IF NameWords(name) \cap {"story", "behind", "day"} # {} THEN "Brand Story"
    ELSE IF duration # 0 /\ duration < 30 THEN "Short-form Content"
    ELSE "Video Content"
GuessConfidence(type) == IF type = "Video Content" THEN 75 ELSE 80

IntelligentBase(platform, type) ==
    CASE platform = "tiktok" -> IF type = "Short-form Content" THEN 95 ELSE 85
      [] platform = "instagram" ->
            IF type = "Brand Story" THEN 92
            ELSE IF type = "Short-form Content" THEN 90 ELSE 80
      [] platform = "linkedin" ->
            IF type = "Educational Content" THEN 88
            ELSE IF type = "Brand Story" THEN 85 ELSE 65
      [] platform = "facebook" -> IF type = "Brand Story" THEN 85 ELSE 78
      [] platform = "twitter" -> IF type = "Short-form Content" THEN 82 ELSE 70
      [] OTHER -> 75
IntelligentTips(platform) ==
    IF platform \in {"tiktok", "instagram", "linkedin", "facebook", "twitter"} THEN 5 ELSE 4
\* generateIntelligentVideoRecommendations
IntelligentVideoRecommendations(platforms, type, duration, sizeMB) ==
    [p \in Range(platforms) |->
        LET adjusted == IntelligentBase(p, type)
                        - (IF duration # 0 /\ duration < 5 THEN 5 ELSE 0)
                        - (IF duration # 0 /\ duration > 300 THEN 10 ELSE 0)
                        - (IF sizeMB > 100 THEN 5 ELSE 0)
                        - (IF type = "Educational Content" /\ p \in {"tiktok", "snapchat"}
                           THEN 5 ELSE 0)
        IN Rec(Max(20, Min(100, adjusted)), Min(4, IntelligentTips(p)))]
\* calculateVideoScore
CalculateVideoScore(type, duration, sizeMB) ==
    LET base == CASE type = "Educational Content" -> 82
                  [] type = "Brand Story" -> 85
                  [] type = "Short-form Content" -> 88
                  [] type = "Advertisement" -> 78
                  [] OTHER -> 75
        byDuration == IF duration = 0 THEN 0
                      ELSE IF duration >= 15 /\ duration <= 90 THEN 5
                      ELSE IF duration < 10 THEN -3
                      ELSE IF duration > 180 THEN -5 ELSE 0
        bySize == (IF sizeMB > 50 THEN -3 ELSE 0) + (IF sizeMB < 1 THEN -2 ELSE 0)
    IN Max(40, Min(100, base + byDuration + bySize))
VideoHeuristicResult(file, platforms) ==
    LET duration == VideoDurationEstimate(file.sizeMB)
        type == ContentTypeGuess(file.name, duration)
    IN VideoResult(type, GuessConfidence(type), 30, 70, "Engagement & Storytelling",
                   IntelligentVideoRecommendations(platforms, type, duration, file.sizeMB),
                   CalculateVideoScore(type, duration, file.sizeMB))

\* version 3: calculateScoreFromVideoAnalysis
ScoreFromVideoAnalysis(analysis) ==
    LET visualQuality == NumOr(Field(analysis, <<"technicalAspects", "visualQuality">>), 80)
        consistency == NumOr(Field(analysis, <<"technicalAspects", "consistency">>), 80)
        engagement == NumOr(Field(analysis, <<"technicalAspects", "engagement">>), 70)
        confidence == NumOr(Field(analysis, <<"contentType", "confidence">>), 80)
        base100 == visualQuality * 30 + consistency * 20 + engagement * 30 + confidence * 20
    IN Round(Max(4000, Min(10000, base100)), 100)
\* generateVideoRecommendationsFromAnalysis
VideoRecommendationsFromAnalysis(analysis, platforms, sizeMB) ==
    LET type == StrOr(Field(analysis, <<"contentType", "type">>), "Video Content")
        visualQuality == NumOr(Field(analysis, <<"technicalAspects", "visualQuality">>), 80)
        quality == StrOr(Field(analysis, <<"visualElements", "visualStyle", "productionQuality">>),
                         "casual")
        engagementM == Field(analysis, <<"technicalAspects", "engagement">>)
        engagement == IF IsNullish(engagementM) THEN 0 ELSE engagementM.n
        branding == Field(analysis, <<"contentAnalysis", "brandingLevel">>)
        base(p) ==
            CASE p = "tiktok" -> visualQuality + (IF type = "Entertainment" THEN 10 ELSE 0)
              [] p = "instagram" -> visualQuality + (IF quality = "professional" THEN 5 ELSE 0)
              [] p = "linkedin" ->
                    IF type = "Educational Content" THEN visualQuality + 15
                    ELSE IF type = "Advertisement" THEN visualQuality - 5 ELSE visualQuality
              [] p = "twitter" ->
                    IF type = "News/Documentary" THEN visualQuality + 10 ELSE visualQuality - 5
              [] OTHER -> visualQuality
        adjusted(p) == base(p)
                       + (IF engagement > 80 THEN 5 ELSE 0)
                       - (IF branding.t = "str" /\ branding.s = "heavy" /\ p # "linkedin"
                          THEN 3 ELSE 0)
                       - (IF sizeMB > 50 THEN 5 ELSE 0)
    IN [p \in Range(platforms) |-> Rec(Max(30, Min(100, adjusted(p))), 4)]
VideoPrimary(type) ==
    CASE type \in {"Educational Content", "Tutorial"} -> "Education & Authority Building"
      [] type = "Advertisement" -> "Conversion & Sales"
      [] type = "Brand Story" -> "Brand Awareness & Trust"
      [] type = "Entertainment" -> "Engagement & Viral Reach"
      [] type = "Product Demo" -> "Product Awareness & Conversion"
      [] OTHER -> "Engagement & Brand Awareness"
VideoFailed == Err(0, "", "Failed to analyze video content")
\* analyzeVideoFile once the provider call has settled: outcome is the call's
\* record.  Every exception of the try block, the provider's rejection and
\* the JSON.parse SyntaxError alike, is replaced by one generic Error.
AnalyzeVideoFile(file, outcome, platforms) ==
    IF outcome.outcome = "error" THEN Threw(VideoFailed)
    ELSE LET p == JsonParse(ResponseText(outcome.payload))
             analysis == [mem |-> p.mem]
         IN IF ~p.ok THEN Threw(VideoFailed)
            ELSE IF IsNullValue(analysis) THEN Threw(VideoFailed)
            ELSE LET type == StrOr(Field(analysis, <<"contentType", "type">>), "Video Content") IN
                 Returned(VideoResult(
                    type,
                    NumOr(Field(analysis, <<"contentType", "confidence">>), 80),
                    IF Truthy(Field(analysis, <<"visualElements", "text", "hasText">>))
                    THEN 60 ELSE 20,
                    NumOr(Field(analysis, <<"technicalAspects", "visualQuality">>), 80),
                    VideoPrimary(Field(analysis, <<"contentType", "type">>).s),
                    VideoRecommendationsFromAnalysis(analysis, platforms, file.sizeMB),
                    ScoreFromVideoAnalysis(analysis)))


---------------------------------------------------------------------------
(* analyzeContentWithOpenAI: the catch block *)

SubscriptionExpired == Err(0, "", "SUBSCRIPTION_EXPIRED")
\* what analyzeContentWithOpenAI throws when performOpenAIAnalysis threw e
AnalyzeContentRethrow(e) ==
    IF e.status = 429 \/ e.code = "insufficient_quota" THEN SubscriptionExpired ELSE e

---------------------------------------------------------------------------
(* POST of the OpenAI route: the response built from aiResult *)

\* the keys the route writes into platformFitAnalysis, with their multipliers
FitMultiplier(p) ==
    CASE p \in {"instagram", "facebook"} -> 90
      [] p \in {"tiktok", "twitter"} -> 85
      [] p = "linkedin" -> 80
      [] p = "snapchat" -> 75
FitKeys == {"instagram", "tiktok", "linkedin", "twitter", "facebook", "snapchat"}

\* aiResult.platformRecommendations?.[platform] || {}
EmptyRec == [score |-> Undefined(<<>>), optimizations |-> Undefined(<<>>)]
PlatformRec(ai, p) ==
    IF p \in DOMAIN ai.platformRecommendations THEN ai.platformRecommendations[p]
    ELSE EmptyRec
\* aiResult.overallScore || d
OverallOr(ai, d) == IF ai.overallScore # 0 THEN ai.overallScore ELSE d

\* variant: every platform without a score gets the constant 50
RawScoreNeutral(ai, p) == NumOr(PlatformRec(ai, p).score, 50)

\* rec.score || Math.round((aiResult.overallScore || 60) * 0.8)
RawScore(ai, p) == NumOr(PlatformRec(ai, p).score, Round(OverallOr(ai, 60) * 80, 100))

\* predictions: one entry per element of platforms, in order
Predictions(ai, platforms) ==
    [i \in 1..Len(platforms) |->
        LET rec == PlatformRec(ai, platforms[i]) IN
        [platform |-> platforms[i],
         successScore |-> Min(10, Max(0, Round(RawScore(ai, platforms[i]), 10))),
         polarisationScore |-> "Low",
         strategicAngle |-> ai.strategicPositioning.primary,
         recommendations |-> IF Truthy(rec.optimizations) THEN rec.optimizations.n ELSE 2,
         generic |-> ~Truthy(rec.optimizations)]]

\* platformFitAnalysis: six fixed keys, score ?? fallback
PlatformFitAnalysis(ai) ==
    [p \in FitKeys |->
        IF IsNullish(PlatformRec(ai, p).score)
        THEN Round(OverallOr(ai, 60) * FitMultiplier(p), 100)
        ELSE PlatformRec(ai, p).score.n]

\* variant: tailoredRecommendations written with the six fixed keys
TailoredFixedKeys(ai, platforms) ==
    [p \in FitKeys |->
        [prediction |-> "moderate", score |-> Round(RawScore(ai, p), 10),
         optimizationTips |-> 1, generic |-> TRUE]]

\* tailoredRecommendations: Object.fromEntries over platforms
TailoredRecommendations(ai, platforms) ==
    [p \in Range(platforms) |->
        LET rec == PlatformRec(ai, p)
            score == RawScore(ai, p)
        IN [prediction |-> IF score > 80 THEN "strong"
                           ELSE IF score > 60 THEN "good" ELSE "moderate",
            score |-> Round(score, 10),
            optimizationTips |-> IF Truthy(rec.optimizations) THEN rec.optimizations.n ELSE 1,
            generic |-> ~Truthy(rec.optimizations)]]

\* variant: the category score without Math.min / Math.max around it
CategoryScoreUnclamped(ai, mult) == Round(OverallOr(ai, 75) * mult, 1000)

\* a 0-10 category score of brandDesignEvaluation from the overall score
CategoryScore(ai, mult) == Min(10, Max(0, Round(OverallOr(ai, 75) * mult, 1000)))

NoAnalysis == [present |-> FALSE]

\* the AssetAnalysis object of the OpenAI route
OpenAIAnalysis(ai, platforms) ==
    [present |-> TRUE,
     source |-> "openai",
     contentIdentification |->
        [contentType |-> IF ai.contentType.type # "" THEN ai.contentType.type ELSE "Social Post",
         confidence |-> IF ai.contentType.confidence # 0 THEN ai.contentType.confidence ELSE 75],
     strategicPositioning |->
        [primaryStrategy |-> ai.strategicPositioning.primary,
         strategyScore |-> IF ai.contentType.confidence # 0
                           THEN ai.contentType.confidence ELSE 75],
     emotionalAnalysis |-> [emotionalIntensity |-> 80, isPolarizing |-> FALSE],
     platformFitAnalysis |-> PlatformFitAnalysis(ai),
     performanceScoring |->
        [engagementPotential |-> OverallOr(ai, 75),
         clarityOfMessage |-> 85,
         viralityLikelihood |-> 70],
     tailoredRecommendations |-> TailoredRecommendations(ai, platforms),
     visualFeatures |->
        [faces |-> ai.visualAnalysis.faces,
         textDensity |-> IF ai.visualAnalysis.textDensity # 0
                         THEN ai.visualAnalysis.textDensity ELSE 30,
         logoVisibility |-> 80,
         colorHarmony |-> IF ai.visualAnalysis.colorHarmony # 0
                          THEN ai.visualAnalysis.colorHarmony ELSE 80],
     brandSafety |->
        [nsfw |-> FALSE, violent |-> FALSE, sensitive |-> FALSE,
         \* a percentage, 0..95, stored where the mock stores 0.9..1: in hundredths
         score |-> 100 * Min(95, Round(OverallOr(ai, 50) * 95, 100))],
     platformFit |->
        [aspectRatio |-> 80,
         textInImageTolerance |-> IF ai.visualAnalysis.textDensity < 50 THEN 80 ELSE 60,
         toneFit |-> 80],
     brandDesignEvaluation |->
        [designConsistency |-> CategoryScore(ai, 90),
         formatAndSize |-> CategoryScore(ai, 85),
         contentClarity |->
            Min(10, Max(0, Round(100 - (IF ai.visualAnalysis.textDensity # 0
                                        THEN ai.visualAnalysis.textDensity ELSE 50), 10))),
         textAccuracy |-> CategoryScore(ai, 95),
         brandPresence |-> CategoryScore(ai, 80)]]

\* NextResponse.json bodies
ErrorResponse(status, error) ==
    [status |-> status, success |-> FALSE, error |-> error,
     predictions |-> <<>>, analysis |-> NoAnalysis, fileName |-> "", fileType |-> ""]
SuccessResponse(predictions, analysis, file) ==
    [status |-> 200, success |-> TRUE, error |-> "",
     predictions |-> predictions, analysis |-> analysis,
     fileName |-> file.name, fileType |-> file.type]
NoResponse == ErrorResponse(0, "")
\* response.ok
ResponseOk(r) == r.status >= 200 /\ r.status <= 299

\* the catch block of the OpenAI route
OpenAICatch(e) == ErrorResponse(500, "AI analysis failed: " \o e.message)
\* the catch block of the model-service route
ModelCatch(e) == ErrorResponse(500, "Internal server error")

\* the response of the OpenAI route once analyzeContentWithOpenAI settled
OpenAIRespond(r, platforms, file) ==
    IF r.threw THEN OpenAICatch(AnalyzeContentRethrow(r.error))
    ELSE SuccessResponse(Predictions(r.value, platforms),
                         OpenAIAnalysis(r.value, platforms), file)

---------------------------------------------------------------------------
(* Both routes: the checks before the analysis starts *)

\* variant: the session check is missing
UnauthorizedNever(r) == FALSE
\* variant: the length test of the platforms check is missing
PlatformsInvalidNoLength(r) == r.platforms.kind # "array"

\* !session?.user?.email
Unauthorized(r) == ~r.session
\* JSON.parse(formData.get('platforms')) throws
PlatformsUnparseable(r) == r.platforms.kind = "unparseable"
\* !file
FileMissing(r) == ~r.file.present
\* !platforms || !Array.isArray(platforms) || platforms.length === 0
PlatformsInvalid(r) == r.platforms.kind # "array" \/ Len(r.platforms.list) = 0

\* the early return of a route, "" when the request passes every check
EntryRejection(r) ==
    IF Unauthorized(r) THEN "unauthorized"
    ELSE IF PlatformsUnparseable(r) THEN "throw"
    ELSE IF FileMissing(r) THEN "nofile"
    ELSE IF PlatformsInvalid(r) THEN "noplatforms"
    ELSE ""
\* caught: what the route's catch block answers to the SyntaxError
RejectionResponse(kind, caught) ==
    CASE kind = "unauthorized" -> ErrorResponse(401, "Unauthorized")
      [] kind = "throw" -> caught
      [] kind = "nofile" -> ErrorResponse(400, "No file provided")
      [] kind = "noplatforms" -> ErrorResponse(400, "No platforms selected")


---------------------------------------------------------------------------
(* ModelService.getMockPrediction: the fallback of the model-service route. *)
(* Math.random() is a draw u/100; one draw stands for every call of it but  *)
(* the two that choose the content type and isPolarizing.                   *)

MockTypes == {"Meme", "Long-form Blog"}
RandomDraws == {0, 50, 99}
\* Math.floor(base + Math.random() * span)
RandFloor(base, span, u) == base + (span * u) \div 100

MockPlatformScore(p, type) ==
    CASE p = "instagram" -> IF type = "Meme" THEN 85 ELSE 25
      [] p = "tiktok" -> IF type = "Meme" THEN 90 ELSE 30
      [] p = "linkedin" -> IF type = "Meme" THEN 25 ELSE 90
      [] p = "twitter" -> IF type = "Meme" THEN 88 ELSE 65
      [] p = "facebook" -> 70
MockFitKeys == {"instagram", "tiktok", "linkedin", "twitter", "youtube", "facebook", "snapchat"}
\* Object.keys(audienceReactions)
MockTailoredKeys == {"instagram", "tiktok", "linkedin", "twitter", "facebook"}

MockAnalysis(type, u, isPolarizing) ==
    [present |-> TRUE,
     source |-> "mock",
     contentIdentification |-> [contentType |-> type, confidence |-> 88 + (12 * u) \div 100],
     strategicPositioning |->
        [primaryStrategy |-> "humor", strategyScore |-> 75 + (25 * u) \div 100],
     platformFitAnalysis |->
        [p \in MockFitKeys |->
            IF p = "snapchat" THEN RandFloor(40, 40, u)
            ELSE MockPlatformScore(IF p = "youtube" THEN "facebook" ELSE p, type)
                 + RandFloor(0, 10, u) - 5],
     performanceScoring |->
        [engagementPotential |-> RandFloor(60, 40, u),
         clarityOfMessage |-> RandFloor(70, 30, u),
         viralityLikelihood |-> IF isPolarizing THEN RandFloor(70, 30, u)
                                ELSE RandFloor(40, 40, u)],
     emotionalAnalysis |-> [emotionalIntensity |-> 60 + (40 * u) \div 100,
                            isPolarizing |-> isPolarizing],
     tailoredRecommendations |->
        [p \in MockTailoredKeys |->
            [prediction |-> "reaction", score |-> MockPlatformScore(p, type),
             optimizationTips |-> 3, generic |-> FALSE]],
     brandSafety |-> [nsfw |-> FALSE, violent |-> FALSE, sensitive |-> FALSE,
                      score |-> 90 + (10 * u) \div 100],
     visualFeatures |->
        [faces |-> RandFloor(0, 5, u),
         textDensity |-> (30 * u) \div 100,
         logoVisibility |-> u,
         colorHarmony |-> 70 + (30 * u) \div 100],
     platformFit |->
        [aspectRatio |-> u, textInImageTolerance |-> u, toneFit |-> 60 + (40 * u) \div 100],
     brandDesignEvaluation |->
        [designConsistency |-> RandFloor(7, 3, u),
         formatAndSize |-> RandFloor(8, 2, u),
         contentClarity |-> RandFloor(6, 3, u),
         textAccuracy |-> RandFloor(8, 2, u),
         brandPresence |-> RandFloor(7, 2, u)]]

\* predictions of the mock: platformFitAnalysis[platform.toLowerCase()] || 70
MockPredictions(platforms, analysis) ==
    [i \in 1..Len(platforms) |->
        LET fit == IF platforms[i] \in MockFitKeys
                      /\ analysis.platformFitAnalysis[platforms[i]] # 0
                   THEN analysis.platformFitAnalysis[platforms[i]] ELSE 70
            successScore == (fit + analysis.performanceScoring.engagementPotential) \div 20
        IN [platform |-> platforms[i],
            successScore |-> Max(1, Min(10, successScore)),
            polarisationScore |->
                IF analysis.emotionalAnalysis.isPolarizing  \* polarizationAnalysis.level 'High'
                THEN IF analysis.emotionalAnalysis.emotionalIntensity > 80
                     THEN "High" ELSE "Medium"
                ELSE "Low",
            strategicAngle |-> analysis.contentIdentification.contentType,
            recommendations |-> 3,
            generic |-> FALSE]]

\* getMockPrediction: platform.toLowerCase() throws on an element that is no string
GetMockPrediction(platforms, type, u, isPolarizing) ==
    IF \E i \in DOMAIN platforms : ~IsStringId(platforms[i]) THEN Threw(TypeError)
    ELSE LET analysis == MockAnalysis(type, u, isPolarizing)
         IN Returned([analysis |-> analysis,
                      predictions |-> MockPredictions(platforms, analysis)])

\* response.data of the Python service: an object this repository does not build
ExternalAnalysis == [present |-> TRUE, source |-> "external"]

\* variant: the record keeps the uploaded content beside the metadata
AuditRecordWithContent(email, platforms, file) ==
    [userId |-> email, userEmail |-> email, action |-> "Asset Analysis",
     platforms |-> platforms, fileName |-> file.name, fileType |-> file.type,
     content |-> file.bytes]

\* AuditService.logAction: the record pushed (id and timestamp left out)
AuditRecord(email, platforms, file) ==
    [userId |-> email, userEmail |-> email, action |-> "Asset Analysis",
     platforms |-> platforms, fileName |-> file.name, fileType |-> file.type]

---------------------------------------------------------------------------
(* authOptions.callbacks.signIn.  An e-mail address is the sequence of its   *)
(* pieces; the address is their concatenation.                               *)

MaxEmailLen == 3
EmailPieces == {"ana", "@", "optiminastic.com", "not", "gmail.com"}
\* user.email: absent (null or undefined), or a string, possibly empty
NoEmail == [present |-> FALSE, text |-> <<>>]
Email(text) == [present |-> TRUE, text |-> text]
Users == {NoEmail} \cup { Email(t) : t \in SeqsUpTo(EmailPieces, MaxEmailLen) }
NoSignIn == [called |-> FALSE, user |-> NoEmail, allowed |-> FALSE]

\* email.includes("@optiminastic.com"): the domain anywhere in the address
ContainsDomain(text) ==
    \E i \in 1..(Len(text) - 1) : text[i] = "@" /\ text[i + 1] = "optiminastic.com"

\* email.endsWith("@optiminastic.com")
EndsWithDomain(text) ==
    /\ Len(text) >= 2
    /\ text[Len(text) - 1] = "@"
    /\ text[Len(text)] = "optiminastic.com"
\* the value signIn returns
SignInAllowed(user) ==
    IF user.present /\ user.text # <<>> /\ EndsWithDomain(user.text) THEN TRUE ELSE FALSE

---------------------------------------------------------------------------
(* State machine *)

\* a provider call in flight or settled; sent is the asset bytes its request
\* body carries ("" when it carries none)
PendingCall(step) ==
    [step |-> step, outcome |-> "pending", payload |-> NoContent, error |-> NoErr, sent |-> ""]
OkCall(step, payload) ==
    [step |-> step, outcome |-> "ok", payload |-> payload, error |-> NoErr, sent |-> ""]
FailedCall(step, e) ==
    [step |-> step, outcome |-> "error", payload |-> NoContent, error |-> e, sent |-> ""]
\* the call with the asset in its body: the image_url data URL of the two
\* image calls, the multipart file of the model service's request
Carrying(call, bytes) == [call EXCEPT !.sent = bytes]

\* the prompt of step 2: the template with its two interpolations,
\* JSON.stringify(contentAnalysis) and platforms.join(', ')
PlatformPrompt(content, platforms) == [previous |-> content, platforms |-> platforms]
\* the platform call as issued, with its prompt
PlatformCall(prompt) ==
    [step |-> "platform", outcome |-> "pending", payload |-> NoContent, error |-> NoErr,
     prompt |-> prompt, sent |-> ""]

\* no GET route has answered yet
NoGet == [route |-> "none", session |-> "", userId |-> [has |-> FALSE, text |-> ""],
          status |-> 0, logs |-> <<>>, keyLength |-> 0, keyPrefix |-> <<>>]

NoRequest == [session |-> FALSE, file |-> NoFile, platforms |-> AbsentField]
NoResults == [present |-> FALSE]

Init ==
    /\ pc = "idle"
    /\ origin = "none"
    /\ req = NoRequest
    /\ calls = <<>>
    /\ contentAnalysis = [mem |-> {}]
    /\ aiResult = NoResult
    /\ response = NoResponse
    /\ auditLogs = <<>>
    /\ uploadedFile = NoFile
    /\ selectedPlatforms = <<>>
    /\ isAnalyzing = FALSE
    /\ results = NoResults
    /\ showSubscriptionError = FALSE
    /\ alertMessage = ""
    /\ openaiClient = FALSE
    /\ signIn = NoSignIn
    /\ normalized = <<>>
    /\ getResponse = NoGet

requestVars == <<pc, origin, req, calls, contentAnalysis, aiResult, response, auditLogs>>
dashboardVars == <<isAnalyzing, results, showSubscriptionError, alertMessage>>

(* Dashboard: FileUpload and PlatformSelector, rendered while results is null *)

\* FileUpload.onDrop -> onFileSelect(file)
SelectFile(f) ==
    /\ pc = "idle"
    /\ ~results.present
    /\ UNCHANGED <<openaiClient, signIn, normalized, getResponse>>
    /\ uploadedFile' = f
    /\ UNCHANGED <<requestVars, selectedPlatforms, dashboardVars>>

RECURSIVE Without(_, _)
\* selectedPlatforms.filter(id => id !== platformId)
Without(s, id) == IF s = <<>> THEN <<>>
                  ELSE IF Head(s) = id THEN Without(Tail(s), id)
                  ELSE <<Head(s)>> \o Without(Tail(s), id)

\* variant: togglePlatform without the includes test
TogglePlatformAppends(selected, id) == Append(selected, id)

\* PlatformSelector.togglePlatform
TogglePlatformResult(selected, id) ==
    IF id \in Range(selected) THEN Without(selected, id) ELSE Append(selected, id)
TogglePlatform(id) ==
    /\ pc = "idle"
    /\ ~results.present
    /\ UNCHANGED <<openaiClient, signIn, normalized, getResponse>>
    /\ id \in Range(selectedPlatforms) \/ Len(selectedPlatforms) < MaxPlatforms
    /\ selectedPlatforms' = TogglePlatformResult(selectedPlatforms, id)
    /\ UNCHANGED <<requestVars, uploadedFile, dashboardVars>>

\* PlatformSelector.selectAll
SelectAll ==
    /\ pc = "idle"
    /\ ~results.present
    /\ UNCHANGED <<openaiClient, signIn, normalized, getResponse>>
    /\ selectedPlatforms' = PLATFORMS
    /\ UNCHANGED <<requestVars, uploadedFile, dashboardVars>>

\* PlatformSelector.clearAll
ClearAll ==
    /\ pc = "idle"
    /\ ~results.present
    /\ UNCHANGED <<openaiClient, signIn, normalized, getResponse>>
    /\ selectedPlatforms' = <<>>
    /\ UNCHANGED <<requestVars, uploadedFile, dashboardVars>>

\* Dashboard.handleAnalyze up to the fetch; its guard returns without a request
HandleAnalyzeGuard == uploadedFile.present /\ Len(selectedPlatforms) # 0
HandleAnalyze(session) ==
    /\ pc = "idle"
    /\ ~results.present
    /\ UNCHANGED <<openaiClient, signIn, normalized, getResponse>>
    /\ ~isAnalyzing
    /\ HandleAnalyzeGuard
    /\ isAnalyzing' = TRUE
    /\ origin' = "dashboard"
    /\ req' = [session |-> session, file |-> uploadedFile,
               platforms |-> ArrayField(selectedPlatforms)]
    /\ pc' = "sent"
    /\ UNCHANGED <<calls, contentAnalysis, aiResult, response, auditLogs,
                   uploadedFile, selectedPlatforms, results,
                   showSubscriptionError, alertMessage>>

\* any other client of /api/predict: every form it can post
DirectRequest(session, file, field) ==
    /\ pc = "idle"
    /\ UNCHANGED <<openaiClient, signIn, normalized, getResponse>>
    /\ uploadedFile = NoFile /\ selectedPlatforms = <<>>
    /\ origin' = "direct"
    /\ req' = [session |-> session, file |-> file, platforms |-> field]
    /\ pc' = "sent"
    /\ UNCHANGED <<calls, contentAnalysis, aiResult, response, auditLogs,
                   uploadedFile, selectedPlatforms, dashboardVars>>

(* POST /api/predict, OpenAI route *)

\* an early return, or the catch block when JSON.parse of the field throws
OpenAIReject ==
    /\ pc = "sent"
    /\ UNCHANGED <<openaiClient, signIn, normalized, getResponse>>
    /\ EntryRejection(req) # ""
    /\ response' = RejectionResponse(EntryRejection(req), OpenAICatch(SyntaxError))
    /\ pc' = "responded"
    /\ UNCHANGED <<origin, req, calls, contentAnalysis, aiResult, auditLogs,
                   uploadedFile, selectedPlatforms, dashboardVars>>

\* performOpenAIAnalysis, image: the content call is issued
OpenAIStartImage ==
    /\ pc = "sent"
    /\ openaiClient' = TRUE
    /\ UNCHANGED <<signIn, normalized, getResponse>>
    /\ EntryRejection(req) = ""
    /\ ~IsVideo(req.file)
    /\ calls' = <<Carrying(PendingCall("content"), req.file.bytes)>>
    /\ pc' = "content_call"
    /\ UNCHANGED <<origin, req, contentAnalysis, aiResult, response, auditLogs,
                   uploadedFile, selectedPlatforms, dashboardVars>>

\* performOpenAIAnalysis, video, in the versions that ask no provider
OpenAIVideoLocal(impl) ==
    /\ pc = "sent"
    /\ UNCHANGED <<openaiClient, signIn, normalized, getResponse>>
    /\ EntryRejection(req) = ""
    /\ IsVideo(req.file)
    /\ LET ai == IF impl = "metadata" THEN VideoMetadataResult(req.platforms.list)
                 ELSE VideoHeuristicResult(req.file, req.platforms.list)
       IN /\ aiResult' = ai
          /\ response' = OpenAIRespond(Returned(ai), req.platforms.list, req.file)
    /\ pc' = "responded"
    /\ UNCHANGED <<origin, req, calls, contentAnalysis, auditLogs,
                   uploadedFile, selectedPlatforms, dashboardVars>>

\* variant: the video call carries the asset like the image calls do
OpenAIStartVideoWithAsset ==
    /\ pc = "sent"
    /\ openaiClient' = TRUE
    /\ UNCHANGED <<signIn, normalized, getResponse>>
    /\ EntryRejection(req) = ""
    /\ IsVideo(req.file)
    /\ calls' = <<Carrying(PendingCall("video"), req.file.bytes)>>
    /\ pc' = "video_call"
    /\ UNCHANGED <<origin, req, contentAnalysis, aiResult, response, auditLogs,
                   uploadedFile, selectedPlatforms, dashboardVars>>

\* performOpenAIAnalysis, video, in the version that calls analyzeVideoFile
OpenAIStartVideo ==
    /\ pc = "sent"
    /\ openaiClient' = TRUE
    /\ UNCHANGED <<signIn, normalized, getResponse>>
    /\ EntryRejection(req) = ""
    /\ IsVideo(req.file)
    /\ calls' = <<PendingCall("video")>>
    /\ pc' = "video_call"
    /\ UNCHANGED <<origin, req, contentAnalysis, aiResult, response, auditLogs,
                   uploadedFile, selectedPlatforms, dashboardVars>>

\* variant: the content call rejects and the analysis goes on with the default
ContentFailsGoesOn(e) ==
    /\ pc = "content_call"
    /\ UNCHANGED <<openaiClient, signIn, normalized, getResponse>>
    /\ contentAnalysis' = ContentFallback
    /\ calls' = <<Carrying(FailedCall("content", e), req.file.bytes),
                  Carrying(PlatformCall(PlatformPrompt(ContentFallback, req.platforms.list)),
                           req.file.bytes)>>
    /\ pc' = "platform_call"
    /\ UNCHANGED <<origin, req, aiResult, response, auditLogs,
                   uploadedFile, selectedPlatforms, dashboardVars>>

\* the content call rejects: nothing catches it before the route's catch block
ContentFails(e) ==
    /\ pc = "content_call"
    /\ UNCHANGED <<openaiClient, signIn, normalized, getResponse>>
    /\ calls' = <<Carrying(FailedCall("content", e), req.file.bytes)>>
    /\ response' = OpenAIRespond(Threw(e), req.platforms.list, req.file)
    /\ pc' = "responded"
    /\ UNCHANGED <<origin, req, contentAnalysis, aiResult, auditLogs,
                   uploadedFile, selectedPlatforms, dashboardVars>>

\* the content call resolves: step 1 is parsed and the platform call is issued
ContentReturns(payload) ==
    /\ pc = "content_call"
    /\ UNCHANGED <<openaiClient, signIn, normalized, getResponse>>
    /\ contentAnalysis' = ParseContentAnalysis(payload)
    /\ calls' = <<Carrying(OkCall("content", payload), req.file.bytes),
                  Carrying(PlatformCall(PlatformPrompt(ParseContentAnalysis(payload),
                                                       req.platforms.list)),
                           req.file.bytes)>>
    /\ pc' = "platform_call"
    /\ UNCHANGED <<origin, req, aiResult, response, auditLogs,
                   uploadedFile, selectedPlatforms, dashboardVars>>

\* the platform call rejects
PlatformFails(e) ==
    /\ pc = "platform_call"
    /\ UNCHANGED <<openaiClient, signIn, normalized, getResponse>>
    /\ calls' = <<calls[1], [calls[2] EXCEPT !.outcome = "error", !.error = e]>>
    /\ response' = OpenAIRespond(Threw(e), req.platforms.list, req.file)
    /\ pc' = "responded"
    /\ UNCHANGED <<origin, req, contentAnalysis, aiResult, auditLogs,
                   uploadedFile, selectedPlatforms, dashboardVars>>

\* performOpenAIAnalysis from the platform response to its return or throw
PerformImageAnalysis(content, payload, platforms) ==
    LET pa == ParsePlatformAnalysis(payload, content, platforms)
    IN IF pa.threw THEN pa ELSE BuildResult(content, pa.value)

\* the platform call resolves: steps 2 and 3, then the route's response
PlatformReturns(payload) ==
    /\ pc = "platform_call"
    /\ UNCHANGED <<openaiClient, signIn, normalized, getResponse>>
    /\ calls' = <<calls[1], [calls[2] EXCEPT !.outcome = "ok", !.payload = payload]>>
    /\ LET r == PerformImageAnalysis(contentAnalysis, payload, req.platforms.list)
       IN /\ aiResult' = IF r.threw THEN NoResult ELSE r.value
          /\ response' = OpenAIRespond(r, req.platforms.list, req.file)
    /\ pc' = "responded"
    /\ UNCHANGED <<origin, req, contentAnalysis, auditLogs,
                   uploadedFile, selectedPlatforms, dashboardVars>>

\* analyzeVideoFile's provider call settles, either way
VideoSettles(outcome) ==
    /\ pc = "video_call"
    /\ UNCHANGED <<openaiClient, signIn, normalized, getResponse>>
    /\ calls' = <<outcome>>
    /\ LET r == AnalyzeVideoFile(req.file, outcome, req.platforms.list)
       IN /\ aiResult' = IF r.threw THEN NoResult ELSE r.value
          /\ response' = OpenAIRespond(r, req.platforms.list, req.file)
    /\ pc' = "responded"
    /\ UNCHANGED <<origin, req, contentAnalysis, auditLogs,
                   uploadedFile, selectedPlatforms, dashboardVars>>

(* POST /api/predict, model-service route *)

ModelReject ==
    /\ pc = "sent"
    /\ UNCHANGED <<openaiClient, signIn, normalized, getResponse>>
    /\ EntryRejection(req) # ""
    /\ response' = RejectionResponse(EntryRejection(req), ModelCatch(SyntaxError))
    /\ pc' = "responded"
    /\ UNCHANGED <<origin, req, calls, contentAnalysis, aiResult, auditLogs,
                   uploadedFile, selectedPlatforms, dashboardVars>>

\* ModelService.analyzAsset: the axios.post to the Python service is issued
ModelStart ==
    /\ pc = "sent"
    /\ UNCHANGED <<openaiClient, signIn, normalized, getResponse>>
    /\ EntryRejection(req) = ""
    /\ calls' = <<Carrying(PendingCall("model"), req.file.bytes)>>
    /\ pc' = "model_call"
    /\ UNCHANGED <<origin, req, contentAnalysis, aiResult, response, auditLogs,
                   uploadedFile, selectedPlatforms, dashboardVars>>

\* the service answered: response.data is passed through, then logged
ModelReturns ==
    /\ pc = "model_call"
    /\ UNCHANGED <<openaiClient, signIn, normalized, getResponse>>
    /\ calls' = <<Carrying(OkCall("model", NoContent), req.file.bytes)>>
    /\ auditLogs' = Append(auditLogs, AuditRecord(UserEmail, req.platforms.list, req.file))
    /\ response' = SuccessResponse(<<>>, ExternalAnalysis, req.file)
    /\ pc' = "responded"
    /\ UNCHANGED <<origin, req, contentAnalysis, aiResult,
                   uploadedFile, selectedPlatforms, dashboardVars>>

\* the service failed: analyzAsset's catch returns getMockPrediction, or
\* lets its exception through to the route's catch block
ModelFails(e, type, u, isPolarizing) ==
    /\ pc = "model_call"
    /\ UNCHANGED <<openaiClient, signIn, normalized, getResponse>>
    /\ calls' = <<Carrying(FailedCall("model", e), req.file.bytes)>>
    /\ LET r == GetMockPrediction(req.platforms.list, type, u, isPolarizing)
       IN IF r.threw
          THEN /\ response' = ModelCatch(r.error)
               /\ UNCHANGED auditLogs
          ELSE /\ auditLogs' = Append(auditLogs,
                                      AuditRecord(UserEmail, req.platforms.list, req.file))
               /\ response' = SuccessResponse(r.value.predictions, r.value.analysis, req.file)
    /\ pc' = "responded"
    /\ UNCHANGED <<origin, req, contentAnalysis, aiResult,
                   uploadedFile, selectedPlatforms, dashboardVars>>

(* Dashboard.handleAnalyze after the fetch *)

\* alert(`Analysis failed: ${data.error || 'Server error occurred'}`)
AlertText(r) ==
    "Analysis failed: " \o (IF r.error # "" THEN r.error ELSE "Server error occurred")

\* variant: results is set from whatever came back
DashboardReceiveAlways ==
    /\ pc = "responded"
    /\ origin = "dashboard"
    /\ results' = [present |-> TRUE, predictions |-> response.predictions,
                   analysis |-> response.analysis]
    /\ isAnalyzing' = FALSE
    /\ pc' = "done"
    /\ UNCHANGED <<origin, req, calls, contentAnalysis, aiResult, response, auditLogs,
                   uploadedFile, selectedPlatforms, showSubscriptionError, alertMessage,
                   openaiClient, signIn, normalized, getResponse>>

DashboardReceive ==
    /\ pc = "responded"
    /\ UNCHANGED <<openaiClient, signIn, normalized, getResponse>>
    /\ origin = "dashboard"
    /\ IF ResponseOk(response) /\ response.success
       THEN /\ results' = [present |-> TRUE, predictions |-> response.predictions,
                           analysis |-> response.analysis]
            /\ UNCHANGED <<showSubscriptionError, alertMessage>>
       ELSE IF response.error = "SUBSCRIPTION_EXPIRED"
            THEN /\ showSubscriptionError' = TRUE
                 /\ UNCHANGED <<alertMessage, results>>
            ELSE /\ alertMessage' = AlertText(response)
                 /\ UNCHANGED <<showSubscriptionError, results>>
    /\ isAnalyzing' = FALSE
    /\ pc' = "done"
    /\ UNCHANGED <<origin, req, calls, contentAnalysis, aiResult, response, auditLogs,
                   uploadedFile, selectedPlatforms>>

\* the ways the fetch, or response.json(), rejects
FetchErrors == {"TimeoutError", "AbortError", "TypeError", "SyntaxError"}
\* the alert of handleAnalyze's catch block
FetchAlert(kind) ==
    CASE kind = "TimeoutError" ->
           "Analysis timed out. Video processing can take up to 2 minutes. Please try again."
      [] kind = "AbortError" ->
           "Analysis was cancelled due to timeout. Please try with a smaller file."
      [] kind = "TypeError" ->
           "Network error occurred. Please check your connection and try again."
      [] OTHER -> "Analysis failed: Unexpected end of JSON input"

\* variant: the flag is cleared at the end of the try block only, not in a
\* finally block
DashboardFetchFailsNoFinally(kind) ==
    /\ pc \in {"sent", "responded"}
    /\ origin = "dashboard"
    /\ alertMessage' = FetchAlert(kind)
    /\ pc' = "failed"
    /\ UNCHANGED <<origin, req, calls, contentAnalysis, aiResult, response, auditLogs,
                   uploadedFile, selectedPlatforms, results, showSubscriptionError,
                   isAnalyzing, openaiClient, signIn, normalized, getResponse>>

\* the fetch rejects: the request never arrived, or its answer came too late
DashboardFetchFails(kind) ==
    /\ pc \in {"sent", "responded"}
    /\ origin = "dashboard"
    /\ alertMessage' = FetchAlert(kind)
    /\ isAnalyzing' = FALSE
    /\ pc' = "failed"
    /\ UNCHANGED <<origin, req, calls, contentAnalysis, aiResult, response, auditLogs,
                   uploadedFile, selectedPlatforms, results, showSubscriptionError,
                   openaiClient, signIn, normalized, getResponse>>

Sessions == BOOLEAN
DirectFiles == Files \cup {NoFile}
VideoOutcomes == { OkCall("video", p) : p \in VideoPayloads }
                 \cup { FailedCall("video", e) : e \in ProviderErrors }

Next ==
    \/ \E f \in Files : SelectFile(f)
    \/ \E id \in ToggleIds : TogglePlatform(id)
    \/ SelectAll
    \/ ClearAll
    \/ \E s \in Sessions : HandleAnalyze(s)
    \/ \E s \in Sessions, f \in DirectFiles, field \in DirectFields : DirectRequest(s, f, field)
    \/ OpenAIReject
    \/ OpenAIStartImage
    \/ \E impl \in {"metadata", "heuristic"} : OpenAIVideoLocal(impl)
    \/ OpenAIStartVideo
    \/ \E e \in ProviderErrors : ContentFails(e)
    \/ \E p \in ContentPayloads : ContentReturns(p)
    \/ \E e \in ProviderErrors : PlatformFails(e)
    \/ \E p \in PlatformPayloads : PlatformReturns(p)
    \/ \E o \in VideoOutcomes : VideoSettles(o)
    \/ ModelReject
    \/ ModelStart
    \/ ModelReturns
    \/ \E e \in {TimeoutError, NetworkError}, type \in MockTypes, u \in RandomDraws,
          isPolarizing \in BOOLEAN : ModelFails(e, type, u, isPolarizing)
    \/ DashboardReceive
    \/ \E kind \in FetchErrors : DashboardFetchFails(kind)

Spec == Init /\ [][Next]_vars

---------------------------------------------------------------------------
(* Properties.  Shared vocabulary first. *)

\* the route has answered the request
Responded == pc \in {"responded", "done"}
\* provider calls issued for the request
ProviderCalls == Len(calls)
\* the set of requested platform ids
Requested == Range(req.platforms.list)
\* a report built by this repository was returned
ReportReturned == Responded /\ response.success /\ response.analysis.present
OwnReport == ReportReturned /\ response.analysis.source # "external"
\* the response carries an error and nothing of a report
ErrorOnly == /\ ~response.success
             /\ response.error # ""
             /\ ~response.analysis.present
             /\ response.predictions = <<>>
AllCallsReturned == \A i \in DOMAIN calls : calls[i].outcome = "ok"
QuotaFailure(e) == e.status = 429 \/ e.code = "insufficient_quota"

C2_QuotaIsDistinguished ==
    (/\ Responded
     /\ \E i \in DOMAIN calls :
           calls[i].outcome = "error" /\ QuotaFailure(calls[i].error))
    => /\ response.error = "SUBSCRIPTION_EXPIRED"
       /\ (pc = "done" /\ origin = "dashboard")
            => (showSubscriptionError /\ alertMessage = "")

(* C3: in every returned report each platformFitAnalysis value, each        *)
(* tailoredRecommendations score and each performanceScoring field lies     *)
(* within 0..100, whatever the provider returned.                           *)
C3_ScoresInRange ==
    OwnReport =>
        LET a == response.analysis IN
        /\ \A p \in DOMAIN a.platformFitAnalysis : a.platformFitAnalysis[p] \in 0..100
        /\ \A p \in DOMAIN a.tailoredRecommendations :
              a.tailoredRecommendations[p].score \in 0..100
        /\ a.performanceScoring.engagementPotential \in 0..100
        /\ a.performanceScoring.clarityOfMessage \in 0..100
        /\ a.performanceScoring.viralityLikelihood \in 0..100

(* C4: an accepted request fails only when a provider call fails: when      *)
(* every call issued has returned a response, whatever its content, the     *)
(* request ends with a report.                                              *)
C4_FailsOnlyOnProviderFailure ==
    (Responded /\ EntryRejection(req) = "" /\ AllCallsReturned) => ReportReturned

(* C5: when the content call returns and the platform call then fails with  *)
(* a timeout, an HTTP error or a network error, the request still ends with *)
(* a report holding a score for every requested platform.                   *)
C5_PlatformFailureFallsBack ==
    (/\ Responded
     /\ Len(calls) = 2
     /\ calls[1].outcome = "ok"
     /\ calls[2].outcome = "error"
     /\ calls[2].error \in {TimeoutError, HttpError, NetworkError})
    => /\ ReportReturned
       /\ Requested \subseteq DOMAIN response.analysis.tailoredRecommendations

C2_Witness ==
    /\ pc = "done"
    /\ origin = "dashboard"
    /\ calls = <<Carrying(FailedCall("content", RateLimitError), req.file.bytes)>>
    /\ alertMessage = "Analysis failed: AI analysis failed: SUBSCRIPTION_EXPIRED"
    /\ ~showSubscriptionError

C3_Witness ==
    /\ OwnReport
    /\ response.analysis.platformFitAnalysis["instagram"] = 150
    /\ response.analysis.tailoredRecommendations["instagram"].score = 15

C4_Witness ==
    /\ Responded
    /\ ~IsVideo(req.file)
    /\ Len(calls) = 2
    /\ AllCallsReturned
    /\ calls[1].payload = Payload(<<NULLTOK>>)
    /\ response.status = 500

C5_Witness ==
    /\ Responded
    /\ Len(calls) = 2
    /\ calls[1].outcome = "ok"
    /\ calls[2].step = "platform"
    /\ calls[2].outcome = "error"
    /\ calls[2].error = TimeoutError
    /\ response = OpenAICatch(TimeoutError)

\* the payload's text is not JSON as it stands
Malformed(payload) ==
    payload.has /\ payload.text # <<>> /\ ~JsonParse(payload.text).ok
\* the payload's text holds no null
NullFree(payload) == \A i \in DOMAIN payload.text : payload.text[i].k # "null"

(* C6: malformed or truncated JSON from the provider never makes the        *)
(* analysis throw, in the content step, the platform step and the video     *)
(* step alike: when every call returned and some payload is malformed (and  *)
(* none holds a null), the request ends with a report.                      *)
C6_MalformedNeverThrows ==
    (/\ Responded
     /\ AllCallsReturned
     /\ \E i \in DOMAIN calls : Malformed(calls[i].payload)
     /\ \A i \in DOMAIN calls : NullFree(calls[i].payload))
    => ReportReturned

C6_Witness ==
    /\ Responded
    /\ calls = <<OkCall("video", Payload(SubSeq(VideoFull, 1, 5)))>>
    /\ response = OpenAICatch(VideoFailed)

\* the score the OpenAI route gives a platform, read off aiResult
ScoreFromResult(p) ==
    LET recs == aiResult.platformRecommendations
        own == IF p \in DOMAIN recs THEN recs[p].score ELSE Undefined(<<>>)
    IN IF Truthy(own) THEN own.n
       ELSE Round((IF aiResult.overallScore # 0 THEN aiResult.overallScore ELSE 60) * 80, 100)
PredictionFor(p) ==
    LET i == CHOOSE i \in DOMAIN response.predictions : response.predictions[i].platform = p
    IN response.predictions[i]

C8_EmptyPlatformsRejected ==
    /\ (pc # "idle" /\ origin = "dashboard") => req.platforms.list # <<>>
    /\ (pc # "idle" /\ req.platforms = ArrayField(<<>>)) =>
          /\ ProviderCalls = 0
          /\ aiResult = NoResult
          /\ ~response.analysis.present
          /\ (Responded /\ req.session) => (response.status = 400 /\ ErrorOnly)

C8_Witness ==
    /\ Responded
    /\ req.session
    /\ req.file.present
    /\ req.platforms = ArrayField(<<>>)
    /\ response = ErrorResponse(400, "No platforms selected")

(* C9: an authenticated request without a file is answered with status 400  *)
(* and 'No file provided', with no provider call, whatever its platforms    *)
(* field holds.                                                             *)
C9_NoFileRejected ==
    (Responded /\ req.session /\ ~req.file.present) =>
        /\ response = ErrorResponse(400, "No file provided")
        /\ ProviderCalls = 0

C9_Witness ==
    /\ Responded
    /\ req.session
    /\ ~req.file.present
    /\ req.platforms = UnparseableField
    /\ response.status = 500
    /\ ProviderCalls = 0

(* C10: a request without a session email is answered with status 401 and   *)
(* has no other effect: no provider call, no report, no audit record.       *)
C10_UnauthenticatedHasNoEffect ==
    (pc # "idle" /\ ~req.session) =>
        /\ ProviderCalls = 0
        /\ aiResult = NoResult
        /\ auditLogs = <<>>
        /\ Responded => response = ErrorResponse(401, "Unauthorized")
        /\ pc = "done" => ~results.present

C10_Witness ==
    /\ pc = "done"
    /\ ~req.session
    /\ req.file.present
    /\ req.platforms.list # <<>>
    /\ response.status = 401
    /\ alertMessage = "Analysis failed: Unauthorized"


---------------------------------------------------------------------------
(* Sign-in.  The callback is a function of the user alone, so it is checked *)
(* on its own: every step is one sign-in attempt.                          *)

\* authOptions.callbacks.signIn({ user })
SignIn(user) ==
    /\ signIn' = [called |-> TRUE, user |-> user, allowed |-> SignInAllowed(user)]
    /\ UNCHANGED <<requestVars, uploadedFile, selectedPlatforms, dashboardVars, openaiClient,
                   normalized, getResponse>>

AuthNext == \E user \in Users : SignIn(user)

SpecAuth == Init /\ [][AuthNext]_vars

\* the address is some text followed by "@optiminastic.com"
HasCompanyDomain(text) ==
    \E prefix \in SeqsUpTo(EmailPieces, MaxEmailLen) :
        text = prefix \o <<"@", "optiminastic.com">>

\* C11: a sign-in attempt is allowed exactly when the user's e-mail address is
\* present and ends with "@optiminastic.com"; every other attempt is denied.
C11_SignInIffCompanyEmail ==
    signIn.called =>
        (signIn.allowed <=> (signIn.user.present /\ HasCompanyDomain(signIn.user.text)))

\* an allowed company address, with denied look-alikes beside it in the same run
C11_Witness ==
    /\ signIn.called
    /\ signIn.allowed
    /\ signIn.user = Email(<<"ana", "@", "optiminastic.com">>)


---------------------------------------------------------------------------
(* The AssetAnalysis interface: the keys it declares, none of them optional *)

AssetAnalysisKeys ==
    {"contentIdentification", "strategicPositioning", "emotionalAnalysis",
     "platformFitAnalysis", "performanceScoring", "tailoredRecommendations",
     "visualFeatures", "brandSafety", "platformFit", "brandDesignEvaluation"}
PlatformFitAnalysisKeys ==
    {"instagram", "tiktok", "linkedin", "twitter", "youtube", "facebook", "snapchat"}
BrandDesignEvaluationKeys ==
    {"designConsistency", "formatAndSize", "contentClarity", "textAccuracy", "brandPresence"}

\* C12: every successful analysis response carries every key the AssetAnalysis
\* schema declares required: its ten sections, all seven platforms of
\* platformFitAnalysis and the five categories of brandDesignEvaluation.
C12_FullSchema ==
    OwnReport =>
        /\ AssetAnalysisKeys \subseteq DOMAIN response.analysis
        /\ PlatformFitAnalysisKeys \subseteq DOMAIN response.analysis.platformFitAnalysis
        /\ BrandDesignEvaluationKeys \subseteq DOMAIN response.analysis.brandDesignEvaluation

\* a successful report of the OpenAI route, every provider call answered with
\* well-formed JSON, and no youtube entry in platformFitAnalysis
C12_Witness ==
    /\ OwnReport
    /\ response.analysis.source = "openai"
    /\ AllCallsReturned
    /\ \A i \in DOMAIN calls : ~Malformed(calls[i].payload)
    /\ PlatformFitAnalysisKeys \ DOMAIN response.analysis.platformFitAnalysis = {"youtube"}
    /\ (AssetAnalysisKeys \ {"platformFitAnalysis"}) \subseteq DOMAIN response.analysis

C14_ProbabilitiesClamped ==
    OwnReport =>
        /\ response.analysis.contentIdentification.confidence \in 0..100
        /\ response.analysis.brandSafety.score \in 0..100

\* both fields out of range in one report of the OpenAI route: the provider's
\* confidence 1.5 stored as it came, and brandSafety.score a percentage
C14_Witness ==
    /\ OwnReport
    /\ response.analysis.source = "openai"
    /\ AllCallsReturned
    /\ aiResult.contentType.confidence = 150
    /\ response.analysis.contentIdentification.confidence = 150
    /\ response.analysis.brandSafety.score > 100

\* the provider's score for platform p in aiResult, when it gave a number
ProviderScored(p) ==
    /\ p \in DOMAIN aiResult.platformRecommendations
    /\ aiResult.platformRecommendations[p].score.t = "num"

\* C15: for each requested platform with a provider score s in 0..100, 0
\* included, platformFitAnalysis[p], tailoredRecommendations[p].score and the
\* prediction's successScore are all computed from s, never from the fallback.
C15_ScoresDeriveFromProvider ==
    (OwnReport /\ response.analysis.source = "openai") =>
        \A p \in Requested :
            (ProviderScored(p) /\ aiResult.platformRecommendations[p].score.n \in 0..100) =>
                LET s == aiResult.platformRecommendations[p].score.n
                    a == response.analysis
                IN /\ p \in DOMAIN a.platformFitAnalysis => a.platformFitAnalysis[p] = s
                   /\ a.tailoredRecommendations[p].score = Round(s, 10)
                   /\ PredictionFor(p).successScore = Round(s, 10)

\* the provider scored linkedin 0: platformFitAnalysis reports the 0, the
\* other two report the fallback
C15_Witness ==
    /\ OwnReport
    /\ response.analysis.source = "openai"
    /\ "linkedin" \in Requested
    /\ ProviderScored("linkedin")
    /\ aiResult.platformRecommendations["linkedin"].score.n = 0
    /\ response.analysis.platformFitAnalysis["linkedin"] = 0
    /\ response.analysis.tailoredRecommendations["linkedin"].score
         = Round(Round(aiResult.overallScore * 80, 100), 10)
    /\ response.analysis.tailoredRecommendations["linkedin"].score > 0
    /\ PredictionFor("linkedin").successScore > 0

\* C16: every list of tips in a returned result, optimizationTips of each
\* tailoredRecommendations entry and recommendations of each prediction, has
\* at most 4 entries.
C16_AtMostFourTips ==
    OwnReport =>
        /\ \A p \in DOMAIN response.analysis.tailoredRecommendations :
              response.analysis.tailoredRecommendations[p].optimizationTips <= 4
        /\ \A i \in DOMAIN response.predictions :
              response.predictions[i].recommendations <= 4

\* the provider listed five optimizations for instagram, and both lists of
\* the report carry all five
C16_Witness ==
    /\ OwnReport
    /\ response.analysis.source = "openai"
    /\ "instagram" \in Requested
    /\ "instagram" \in DOMAIN aiResult.platformRecommendations
    /\ aiResult.platformRecommendations["instagram"].optimizations = ArrM(5)
    /\ response.analysis.tailoredRecommendations["instagram"].optimizationTips = 5
    /\ PredictionFor("instagram").recommendations = 5

\* the content payload's text after the code fences are removed
ContentText == StripFences(ResponseText(calls[1].payload))

\* C17: whenever a provider payload fails to parse, the normalizer closes the
\* unmatched braces, strips the trailing commas and parses again; the default
\* fragment is used only if the repaired text is still invalid, whether or not
\* the payload's last character is '}'.
C17_RepairBeforeDefault ==
    (pc = "platform_call" /\ ~JsonParse(ContentText).ok) =>
        contentAnalysis = IF JsonParse(RepairJson(ContentText)).ok
                          THEN [mem |-> JsonParse(RepairJson(ContentText)).mem]
                          ELSE ContentFallback

\* an unparseable payload that ends with '}' and that the repair would have
\* made valid, answered with the default fragment
C17_Witness ==
    /\ pc = "platform_call"
    /\ EndsWithBrace(ContentText)
    /\ ~JsonParse(ContentText).ok
    /\ JsonParse(RepairJson(ContentText)).ok
    /\ contentAnalysis = ContentFallback

\* C18: a request that returns a successful report appends exactly one audit
\* record; a request that ends in 401, 400 or 500 appends none.
C18_OneAuditRecordPerReport ==
    Responded => Len(auditLogs) = (IF ResponseOk(response) /\ response.success THEN 1 ELSE 0)

\* a successful report of the OpenAI route, and an audit log still empty
C18_Witness ==
    /\ ReportReturned
    /\ response.analysis.source = "openai"
    /\ response.status = 200
    /\ req.session
    /\ auditLogs = <<>>

\* the response the dashboard is about to read is OK and has success = true
GoodResponse == ResponseOk(response) /\ response.success

\* C20: a request that times out, is aborted, hits a network error or comes
\* back non-OK or without success = true leaves the dashboard's results as
\* they were; results is set only from a response that is OK with success = true.
C20_ResultsOnlyFromSuccess ==
    [][ /\ pc' = "failed" => results' = results
        /\ (pc = "responded" /\ pc' = "done" /\ ~GoodResponse) => results' = results
        /\ (results' # results /\ results'.present) =>
              /\ pc = "responded" /\ pc' = "done" /\ GoodResponse
              /\ results' = [present |-> TRUE, predictions |-> response.predictions,
                             analysis |-> response.analysis] ]_vars

\* the server answered with a full report, the fetch timed out before it
\* arrived, and the dashboard shows the alert and no results
C20_Witness ==
    /\ pc = "failed"
    /\ GoodResponse
    /\ response.analysis.present
    /\ alertMessage = FetchAlert("TimeoutError")
    /\ ~isAnalyzing
    /\ ~results.present


---------------------------------------------------------------------------
(* A session: requests one after the other against one server process.     *)
(* What the process keeps from one request to the next is its module-level *)
(* state, auditLogs and openaiClient; the browser keeps the Dashboard's    *)
(* state.  Everything else is local to a handler call.                     *)

\* no further request is taken once the audit log holds this many records
MaxAuditLogs == 2

\* Dashboard.handleReset, the "analyze another" button of Results
HandleReset ==
    /\ pc = "idle"
    /\ results.present
    /\ uploadedFile' = NoFile
    /\ selectedPlatforms' = <<>>
    /\ results' = NoResults
    /\ UNCHANGED <<requestVars, isAnalyzing, showSubscriptionError, alertMessage,
                   openaiClient, signIn, normalized, getResponse>>

\* POST and handleAnalyze have returned: their locals (formData, file, the
\* buffers, aiResult, the response) are gone
RequestEnds ==
    /\ pc \in {"done", "failed"} \/ (pc = "responded" /\ origin = "direct")
    /\ Len(auditLogs) < MaxAuditLogs
    /\ pc' = "idle"
    /\ origin' = "none"
    /\ req' = NoRequest
    /\ calls' = <<>>
    /\ contentAnalysis' = [mem |-> {}]
    /\ aiResult' = NoResult
    /\ response' = NoResponse
    /\ UNCHANGED <<auditLogs, uploadedFile, selectedPlatforms, dashboardVars,
                   openaiClient, signIn, normalized, getResponse>>

SessionNext ==
    \/ \E f \in {ImageFile, PromoVideo} : SelectFile(f)
    \/ \E id \in {"instagram", "linkedin"} : TogglePlatform(id)
    \/ \E s \in Sessions : HandleAnalyze(s)
    \/ \E s \in Sessions, f \in {ImageFile, NoFile} :
          DirectRequest(s, f, ArrayField(<<"linkedin">>))
    \/ OpenAIReject
    \/ OpenAIStartImage
    \/ OpenAIVideoLocal("heuristic")
    \/ OpenAIStartVideo
    \/ ContentFails(TimeoutError)
    \/ \E text \in {ContentFull, <<JUNK>>} : ContentReturns(Payload(text))
    \/ PlatformFails(QuotaError)
    \/ \E text \in {PlatformFull, <<NULLTOK>>} : PlatformReturns(Payload(text))
    \/ \E o \in {OkCall("video", Payload(VideoFull)), FailedCall("video", NetworkError)} :
          VideoSettles(o)
    \/ ModelReject
    \/ ModelStart
    \/ ModelReturns
    \/ ModelFails(NetworkError, "Meme", 50, FALSE)
    \/ DashboardReceive
    \/ DashboardFetchFails("TimeoutError")
    \/ HandleReset
    \/ RequestEnds

SpecSession == Init /\ [][SessionNext]_vars

\* the bytes of the assets a client can upload
AssetBytes == { f.bytes : f \in Files }
\* the fields the AuditLog interface declares, id and timestamp left out
AuditLogKeys == {"userId", "userEmail", "action", "platforms", "fileName", "fileType"}

---------------------------------------------------------------------------
\* the call to the Python service failed
ModelCallFailed ==
    /\ Responded
    /\ calls # <<>>
    /\ calls[1].step = "model"
    /\ calls[1].outcome = "error"

\* C21: ModelService.analyzAsset never throws: when the call to the model
\* service fails it returns a fallback result with exactly one prediction per
\* requested platform, in request order.
C21_FallbackNeverThrows ==
    ModelCallFailed =>
        /\ response.status = 200 /\ response.success
        /\ Len(response.predictions) = Len(req.platforms.list)
        /\ \A i \in DOMAIN response.predictions :
              response.predictions[i].platform = req.platforms.list[i]

\* the service timed out, the list holds an element that is no string, and
\* the route answers 500 with no prediction and no audit record
C21_Witness ==
    /\ ModelCallFailed
    /\ calls[1].error = TimeoutError
    /\ req.platforms.list = <<"instagram", NumberId>>
    /\ response = ModelCatch(TypeError)
    /\ auditLogs = <<>>


---------------------------------------------------------------------------
(* The normalisation of performOpenAIAnalysis as a function of the raw     *)
(* payloads: step 1 parse, step 2 parse or fallback scoring, step 3 and    *)
(* the result.  Each step of this specification is one run of it.          *)

\* number of runs compared
MaxRuns == 2

NormalizeContents ==
    { Payload(ContentFull), Payload(SubSeq(ContentFull, 1, 8)), Payload(<<JUNK>>), NoContent }
NormalizePlatformTexts ==
    { Payload(PlatformFull), Payload(<<JUNK>>),
      Payload(<<LB, Key("platformRecommendations"), LB,
                Key("instagram"), LB, Key("score"), NumT(150), RB, RB>>) }
NormalizeLists == { <<"instagram">>, <<"linkedin", "myspace">> }

\* performOpenAIAnalysis from the two response texts to its return or throw
Normalize(content, platform, platforms) ==
    PerformImageAnalysis(ParseContentAnalysis(content), platform, platforms)

NormalizeRun(content, platform, platforms) ==
    /\ Len(normalized) < MaxRuns
    /\ normalized' = Append(normalized,
                            [content |-> content, platform |-> platform,
                             platforms |-> platforms,
                             result |-> Normalize(content, platform, platforms)])
    /\ UNCHANGED <<requestVars, uploadedFile, selectedPlatforms, dashboardVars,
                   openaiClient, signIn, getResponse>>

NormalizeNext ==
    \E content \in NormalizeContents, platform \in NormalizePlatformTexts,
       platforms \in NormalizeLists : NormalizeRun(content, platform, platforms)

SpecNormalize == Init /\ [][NormalizeNext]_vars

\* two runs were given the same raw payloads and the same platform list
SameInput(a, b) ==
    /\ a.content = b.content
    /\ a.platform = b.platform
    /\ a.platforms = b.platforms

---------------------------------------------------------------------------
\* the platform payload came back and could not be parsed: the catch block of
\* step 2 scored the platforms
PlatformFallbackUsed ==
    /\ Responded
    /\ Len(calls) = 2
    /\ calls[2].outcome = "ok"
    /\ ~JsonParse(CleanedJson(ResponseText(calls[2].payload))).ok
    /\ aiResult.present
\* contentAnalysis.contentType?.confidence || 0.6, in hundredths
FallbackConfidence == NumOr(Field(contentAnalysis, <<"contentType", "confidence">>), 60)

\* C23: when the platform-analysis payload cannot be parsed, the fallback
\* score of every requested platform, round(round(100 x confidence) x
\* multiplier), lies within 0..100 for every confidence in [0,1], every
\* content type and every platform.
C23_FallbackScoreInRange ==
    (PlatformFallbackUsed /\ FallbackConfidence \in 0..100) =>
        \A p \in Requested :
            aiResult.platformRecommendations[p].score.n \in 0..100

\* confidence 1.0 and a business content type: linkedin is scored 120
C23_Witness ==
    /\ PlatformFallbackUsed
    /\ FallbackConfidence = 100
    /\ "linkedin" \in Requested
    /\ PlatformMultiplier("linkedin",
                          StrOr(Field(contentAnalysis, <<"contentType", "type">>), "")) = 120
    /\ aiResult.platformRecommendations["linkedin"].score.n = 120
    /\ response.success


---------------------------------------------------------------------------
\* the result of an image analysis is in aiResult
ImageResult == aiResult.present /\ req.file.present /\ ~IsVideo(req.file)

\* C24: in the image-analysis result the likelihood map gives the detected
\* content type its confidence, likelihood[type] = confidence, for every
\* content type, 'Ad Copy' and 'Educational Content' included.
C24_LikelihoodOfDetectedType ==
    ImageResult =>
        aiResult.contentType.likelihood[aiResult.contentType.type]
            = aiResult.contentType.confidence

\* the provider detected 'Ad Copy' with confidence 0.9, and the map gives
\* 'Ad Copy' the likelihood 0
C24_Witness ==
    /\ ImageResult
    /\ response.success
    /\ aiResult.contentType.type = "Ad Copy"
    /\ aiResult.contentType.confidence = 90
    /\ aiResult.contentType.likelihood["Ad Copy"] = 0
    /\ DOMAIN aiResult.contentType.likelihood = {"Ad Copy", "Educational Content"}


---------------------------------------------------------------------------
\* the platform call is among the provider calls of the request
PlatformCallIssued(cs) == \E i \in DOMAIN cs : cs[i].step = "platform"

\* C25: in image analysis the platform-recommendation call is issued only
\* after the content-analysis call has returned and its payload has been
\* normalised, and its prompt carries that normalised result; if the
\* content-analysis call fails, no platform-recommendation call is issued.
C25_PlatformCallAfterContent ==
    [][ /\ (PlatformCallIssued(calls') /\ ~PlatformCallIssued(calls)) =>
              /\ calls = <<Carrying(PendingCall("content"), req.file.bytes)>>
              /\ calls'[1].step = "content" /\ calls'[1].outcome = "ok"
              /\ contentAnalysis' = ParseContentAnalysis(calls'[1].payload)
              /\ calls'[2].prompt = PlatformPrompt(contentAnalysis', req.platforms.list)
        /\ PlatformCallIssued(calls') =>
              /\ Len(calls') = 2
              /\ calls'[1].step = "content" /\ calls'[1].outcome = "ok"
        /\ (calls' # <<>> /\ calls'[1].step = "content" /\ calls'[1].outcome = "error") =>
              Len(calls') = 1 ]_vars

\* the content payload was unparseable and replaced by the default, and the
\* platform call went out with the default in its prompt
C25_Witness ==
    /\ pc = "platform_call"
    /\ Malformed(calls[1].payload)
    /\ contentAnalysis = ContentFallback
    /\ calls[2].outcome = "pending"
    /\ calls[2].prompt = PlatformPrompt(ContentFallback, req.platforms.list)


\* performOpenAIAnalysis has answered for a video file
VideoAnalysed == IsVideo(req.file) /\ aiResult.present

LiveNext ==
    \/ \E f \in {ImageFile, PromoVideo} : SelectFile(f)
    \/ TogglePlatform("instagram")
    \/ \E s \in Sessions : HandleAnalyze(s)
    \/ OpenAIReject
    \/ OpenAIStartImage
    \/ OpenAIVideoLocal("heuristic")
    \/ OpenAIStartVideo
    \/ \E e \in {TimeoutError, QuotaError} : ContentFails(e)
    \/ \E text \in {ContentFull, <<JUNK>>} : ContentReturns(Payload(text))
    \/ PlatformFails(QuotaError)
    \/ \E text \in {PlatformFull, <<NULLTOK>>} : PlatformReturns(Payload(text))
    \/ \E o \in {OkCall("video", Payload(VideoFull)), FailedCall("video", NetworkError)} :
          VideoSettles(o)
    \/ DashboardReceive
    \/ \E kind \in FetchErrors : DashboardFetchFails(kind)
    \/ HandleReset
    \/ RequestEnds

\* a step of the analysis in flight: the route handler runs on, an awaited
\* provider call settles, the fetch resolves, rejects or is aborted by
\* AbortSignal.timeout(120000)
AnalysisStep == isAnalyzing /\ LiveNext
\* every awaited promise of an analysis in flight settles
SpecLive == Init /\ [][LiveNext]_vars /\ WF_vars(AnalysisStep)

\* C27: every started analysis eventually clears the dashboard's
\* isAnalyzing flag, whatever its outcome, so the Analyze button does not
\* stay disabled forever.
C27_AnalysisEventuallyEnds == isAnalyzing ~> ~isAnalyzing

\* the fetch was aborted by its timeout: the alert was shown and the flag is
\* cleared again
C27_Witness ==
    /\ origin = "dashboard"
    /\ pc = "failed"
    /\ alertMessage = FetchAlert("TimeoutError")
    /\ ~isAnalyzing
    /\ uploadedFile.present /\ Len(selectedPlatforms) # 0

\* no id occurs twice in the list
NoDuplicate(list) == Cardinality(Range(list)) = Len(list)

\* C28: after any sequence of togglePlatform, selectAll and clearAll from
\* the empty selection, the selected list has no duplicate id and holds only
\* ids of the PLATFORMS catalog, and a request of the dashboard carries a
\* non-empty list, the selection of the moment.
C28_SelectionWellFormed ==
    /\ NoDuplicate(selectedPlatforms)
    /\ Range(selectedPlatforms) \subseteq PlatformIds
    /\ origin = "dashboard" =>
          /\ req.platforms = ArrayField(selectedPlatforms)
          /\ Len(selectedPlatforms) # 0

\* select all, then one card toggled off: the request carries the other five
C28_Witness ==
    /\ origin = "dashboard"
    /\ pc = "sent"
    /\ Len(selectedPlatforms) = 5
    /\ "instagram" \notin Range(selectedPlatforms)
    /\ req.platforms.list = selectedPlatforms

---------------------------------------------------------------------------
(* The GET routes: the audit log and the key checks.  A session is the      *)
(* e-mail address of its user, "" when there is none.                       *)

OtherEmail == "ben@optiminastic.com"
SessionEmails == {"", UserEmail, OtherEmail}

\* searchParams.get('userId'): null when the parameter is absent
NoParam == [has |-> FALSE, text |-> ""]
Param(text) == [has |-> TRUE, text |-> text]
UserIdParams == {NoParam, Param(""), Param(UserEmail), Param(OtherEmail)}

\* parseInt(searchParams.get('limit') || '50'): NaN when the text is no number
NaNLimit == [nan |-> TRUE, n |-> 0]
LimitParams == {NoParam, Param("1"), Param("-1"), Param("all")}
ParseLimit(param) ==
    LET text == IF param.has /\ param.text # "" THEN param.text ELSE "50"
    IN CASE text = "50" -> [nan |-> FALSE, n |-> 50]
         [] text = "1" -> [nan |-> FALSE, n |-> 1]
         [] text = "-1" -> [nan |-> FALSE, n |-> -1]
         [] OTHER -> NaNLimit

\* list.slice(0, limit): NaN counts as 0, a negative limit counts from the end
SliceTo(list, limit) ==
    IF limit.nan THEN <<>>
    ELSE IF limit.n < 0 THEN SubSeq(list, 1, Max(0, Len(list) + limit.n))
    ELSE SubSeq(list, 1, Min(Len(list), limit.n))

\* sort by timestamp, newest first.  auditLogs holds the records in the
\* order of their timestamps; the order getLogs's in-place sort leaves in the
\* array is read by no code that does not sort again.
NewestFirst(list) == [i \in 1..Len(list) |-> list[Len(list) + 1 - i]]
FilterByUser(list, userId) == SelectSeq(list, LAMBDA log : log.userId = userId)

\* AuditService.getLogs
GetLogs(limit) == SliceTo(NewestFirst(auditLogs), limit)
\* AuditService.getLogsByUser
GetLogsByUser(userId, limit) == SliceTo(NewestFirst(FilterByUser(auditLogs, userId)), limit)

\* AuditService.logAction, as the model-service route calls it for the user
\* of the session
LogAction(email, platforms, file) ==
    /\ Len(auditLogs) < MaxAuditLogs
    /\ auditLogs' = Append(auditLogs, AuditRecord(email, platforms, file))
    /\ UNCHANGED <<pc, origin, req, calls, contentAnalysis, aiResult, response,
                   uploadedFile, selectedPlatforms, dashboardVars,
                   openaiClient, signIn, normalized, getResponse>>

\* the logs the audit route selects for an authenticated caller
AuditLogsFor(session, userId, limit) ==
    IF userId.has /\ userId.text # "" /\ userId.text = session
    THEN GetLogsByUser(userId.text, limit)
    ELSE GetLogs(limit)

\* GET of the audit route
AuditGet(session, userId, limitParam) ==
    /\ getResponse' =
          IF session = ""
          THEN [NoGet EXCEPT !.route = "audit", !.session = session, !.userId = userId,
                             !.status = 401]
          ELSE [NoGet EXCEPT !.route = "audit", !.session = session, !.userId = userId,
                             !.status = 200,
                             !.logs = AuditLogsFor(session, userId, ParseLimit(limitParam))]
    /\ UNCHANGED <<requestVars, uploadedFile, selectedPlatforms, dashboardVars,
                   openaiClient, signIn, normalized>>

\* process.env.OPENAI_API_KEY, character by character; unset is the empty key
ApiKey == <<"s", "k", "-", "p", "r", "o", "j", "-", "A", "b", "1", "2", "C", "d">>
EnvKeys == {<<>>, ApiKey}
\* apiKey ? apiKey.substring(0, n) + '...' : 'null', without the suffix
KeyPrefix(apiKey, n) == SubSeq(apiKey, 1, Min(n, Len(apiKey)))

\* GET of the key check that reads no session
TestOpenAIGet(session, apiKey) ==
    /\ getResponse' = [NoGet EXCEPT !.route = "test-openai", !.session = session,
                                    !.status = 200, !.keyLength = Len(apiKey),
                                    !.keyPrefix = KeyPrefix(apiKey, 10)]
    /\ UNCHANGED <<requestVars, uploadedFile, selectedPlatforms, dashboardVars,
                   openaiClient, signIn, normalized>>

\* GET of the key check behind the session check
DebugOpenAIGet(session, apiKey) ==
    /\ getResponse' =
          IF session = ""
          THEN [NoGet EXCEPT !.route = "debug-openai", !.session = session, !.status = 401]
          ELSE [NoGet EXCEPT !.route = "debug-openai", !.session = session,
                             !.status = 200, !.keyLength = Len(apiKey),
                             !.keyPrefix = KeyPrefix(apiKey, 12)]
    /\ UNCHANGED <<requestVars, uploadedFile, selectedPlatforms, dashboardVars,
                   openaiClient, signIn, normalized>>

GetNext ==
    \/ \E email \in {UserEmail, OtherEmail}, f \in {ImageFile, PromoVideo} :
          LogAction(email, <<"instagram">>, f)
    \/ \E session \in SessionEmails, userId \in UserIdParams, limit \in LimitParams :
          AuditGet(session, userId, limit)
    \/ \E session \in SessionEmails, apiKey \in EnvKeys : TestOpenAIGet(session, apiKey)
    \/ \E session \in SessionEmails, apiKey \in EnvKeys : DebugOpenAIGet(session, apiKey)

SpecGet == Init /\ [][GetNext]_vars

\* C29: an authenticated caller of the audit route that supplies a userId
\* parameter receives only records whose userId is the e-mail address of the
\* caller's own session.
C29_AuditFilterOwnRecords ==
    (getResponse.route = "audit" /\ getResponse.status = 200 /\ getResponse.userId.has) =>
        \A i \in DOMAIN getResponse.logs :
            getResponse.logs[i].userId = getResponse.session

\* ana asks for ben's records and receives the whole log, ben's record in it
C29_Witness ==
    /\ getResponse.route = "audit"
    /\ getResponse.status = 200
    /\ getResponse.session = UserEmail
    /\ getResponse.userId = Param(OtherEmail)
    /\ \E i \in DOMAIN getResponse.logs : getResponse.logs[i].userId = OtherEmail

\* a response that tells the length or the first characters of the key
DisclosesKey(r) == r.keyLength # 0 \/ r.keyPrefix # <<>>

\* C30: no route discloses the prefix or the length of the provider API key
\* to a caller without an authenticated session: every route that returns
\* key information answers 401 when the session is absent.
C30_KeyInfoNeedsSession ==
    (getResponse.route \in {"test-openai", "debug-openai"} /\ getResponse.session = "") =>
        getResponse.status = 401 /\ ~DisclosesKey(getResponse)

\* a caller without a session reads the length and the first ten characters
\* of the key
C30_Witness ==
    /\ getResponse.route = "test-openai"
    /\ getResponse.session = ""
    /\ getResponse.status = 200
    /\ getResponse.keyLength = Len(ApiKey)
    /\ getResponse.keyPrefix = SubSeq(ApiKey, 1, 10)
=============================================================================
